---- MODULE Spec2Model ----
(***************************************************************************)
(* State-machine model of gismo::gsG1System (src/src/gsG1Basis/gsG1System.h)*)
(* : the index allocator (initialize / initialize_twoPatch, run by the     *)
(* constructor and callable again on a constructed object), the three      *)
(* insertion operations, finalize, solve and the two reconstructions. No   *)
(* operation of the class tests a lifecycle state, so every action is      *)
(* enabled in every state of a constructed object.                         *)
(*                                                                         *)
(* Conventions.                                                            *)
(*  - C++ vectors are functions over 0..n-1, so indices read as in the     *)
(*    source.                                                              *)
(*  - A size_t is kept as its two's-complement signed representative: a    *)
(*    negative model value v stands for the unsigned value 2^64 + v.       *)
(*    Additions and subtractions agree modulo 2^64; unsigned comparisons   *)
(*    go through ULess.                                                    *)
(*  - Coefficients are integers in units of 1e-13, so that a square is an  *)
(*    integer number of 1e-26: 1e-25 is 10 units, 10e-25 is 100 units.     *)
(***************************************************************************)
EXTENDS Integers, Sequences, FiniteSets, TLC

VARIABLES
    m_twoPatch, m_neumannBdy, m_isogeometric,   \* constructor flags
    mp, mb, innerKnotMulti,                     \* constructor arguments
    built,                                      \* initialize*/ has run
    numBasisFunctions, kindOfVertex, sizePlusInt, sizePlusBdy, kink,
    dim_K, dim_G1_Dofs, dim_G1_Bdy,
    D_sparse, D_0_sparse, D_boundary_sparse, m_g1,
    nFinalize,                                  \* number of finalize calls since the last initialization
    calls,                                      \* the insertion calls since the last initialization, with the pattern of their piece
    aborted,                                    \* the run was stopped by a failed assertion
    ret,                                        \* what the last call handed back, if it was solve or a reconstruction
    ls,                                         \* the line search of the p-Laplace example (stepsize)
    allocator                                   \* the initializer that ran last

vars == << m_twoPatch, m_neumannBdy, m_isogeometric, mp, mb, innerKnotMulti,
           built, numBasisFunctions, kindOfVertex, sizePlusInt, sizePlusBdy,
           kink, dim_K, dim_G1_Dofs, dim_G1_Bdy, D_sparse, D_0_sparse,
           D_boundary_sparse, m_g1, nFinalize, calls, aborted, ret, ls, allocator >>

----------------------------------------------------------------------------
(* Bounds of the model *)

MaxDegree == 3
MaxMult == 2
MaxElems == 3
MaxInserts == 1
MaxFinalize == 1

----------------------------------------------------------------------------
(* Small vector helpers *)

EmptyVec == [i \in {} |-> 0]

VecLen(v) == Cardinality(DOMAIN v)

Last(v) == v[VecLen(v) - 1]

Min2(a, b) == IF a > b THEN b ELSE a

\* unsigned "a < b" on two's-complement representatives of size_t values
ULess(a, b) == IF (a >= 0) = (b >= 0) THEN a < b ELSE a >= 0

RECURSIVE CumSum(_, _)
CumSum(f, i) == IF i = 0 THEN 0 ELSE CumSum(f, i - 1) + f[i - 1]

\* a table whose first entry already holds the first count
CumTableNoLeadingZero(f, n) == [i \in 0..n |-> CumSum(f, IF i < n THEN i + 1 ELSE n)]

\* offset table of the counts f[0..n-1]: leading zero, then running sums
CumTable(f, n) == [i \in 0..n |-> CumSum(f, i)]

\* v.array() + s
ShiftTable(v, s) == [i \in DOMAIN v |-> v[i] + s]

----------------------------------------------------------------------------
(* The basis provider: a univariate B-spline basis is given by its degree  *)
(* p, the multiplicity mult of every inner knot and its element count n;   *)
(* a patch basis is the tensor product of a u- and a v-basis.              *)

BasisSize1(b) == b.p + 1 + (b.n - 1) * b.mult

TensorSize(pb) == BasisSize1(pb.u) * BasisSize1(pb.v)

Component(pb, dir) == IF dir = 0 THEN pb.u ELSE pb.v

\* multiplicity of the knot at position i of the knot sequence (counted with
\* repetitions): p+1 copies of each end knot, mult copies of each inner knot
MultiplicityIndex(b, i) ==
    IF i <= b.p THEN b.p + 1
    ELSE IF i <= b.p + (b.n - 1) * b.mult THEN b.mult
    ELSE b.p + 1

----------------------------------------------------------------------------
(* The topology provider *)

PS(p, s) == [patch |-> p, side |-> s]

PC(p, c) == [patch |-> p, corner |-> c]

IFace(p1, s1, p2, s2) == [first |-> PS(p1, s1), second |-> PS(p2, s2)]

Vec1(a) == [i \in 0..0 |-> a]

Vec2(a, b) == [i \in 0..1 |-> IF i = 0 THEN a ELSE b]

FromSeq(s) == [i \in 0..(Len(s) - 1) |-> s[i + 1]]

\* no patch at all
TopoEmpty ==
    [ nPatches |-> 0, interfaces |-> EmptyVec, boundaries |-> EmptyVec,
      vertices |-> EmptyVec ]

\* one patch
TopoOne ==
    [ nPatches |-> 1,
      interfaces |-> EmptyVec,
      boundaries |-> FromSeq(<< PS(0, 1), PS(0, 2), PS(0, 3), PS(0, 4) >>),
      vertices |-> FromSeq(<< Vec1(PC(0, 1)), Vec1(PC(0, 2)),
                              Vec1(PC(0, 3)), Vec1(PC(0, 4)) >>) ]

\* two patches side by side, patch 0 east - patch 1 west
TopoTwo ==
    [ nPatches |-> 2,
      interfaces |-> FromSeq(<< IFace(0, 2, 1, 1) >>),
      boundaries |-> FromSeq(<< PS(0, 1), PS(0, 3), PS(0, 4),
                                PS(1, 2), PS(1, 3), PS(1, 4) >>),
      vertices |-> FromSeq(<< Vec1(PC(0, 1)),
                              Vec2(PC(0, 2), PC(1, 1)),
                              Vec1(PC(0, 3)),
                              Vec2(PC(0, 4), PC(1, 3)),
                              Vec1(PC(1, 2)),
                              Vec1(PC(1, 4)) >>) ]

\* four patches in a 2 x 2 arrangement: 0 SW, 1 SE, 2 NW, 3 NE
TopoFour ==
    [ nPatches |-> 4,
      interfaces |-> FromSeq(<< IFace(0, 2, 1, 1), IFace(0, 4, 2, 3),
                                IFace(1, 4, 3, 3), IFace(2, 2, 3, 1) >>),
      boundaries |-> FromSeq(<< PS(0, 1), PS(0, 3), PS(1, 2), PS(1, 3),
                                PS(2, 1), PS(2, 4), PS(3, 2), PS(3, 4) >>),
      vertices |-> FromSeq(<< Vec1(PC(0, 1)),
                              Vec2(PC(0, 2), PC(1, 1)),
                              Vec2(PC(0, 3), PC(2, 1)),
                              [i \in 0..3 |-> PC(i, 4 - i)],
                              Vec1(PC(1, 2)),
                              Vec2(PC(1, 4), PC(3, 2)),
                              Vec1(PC(2, 3)),
                              Vec2(PC(2, 4), PC(3, 3)),
                              Vec1(PC(3, 4)) >>) ]

Topologies == { TopoEmpty, TopoOne, TopoTwo, TopoFour }

\* temp_mp.computeTopology(); temp_mp.interfaces().size(): the interfaces of
\* the sub-topology made of the patches around vertex i
SubInterfaces(m, i) ==
    LET ps == { m.vertices[i][j].patch : j \in DOMAIN m.vertices[i] }
    IN  Cardinality({ k \in DOMAIN m.interfaces :
                        /\ m.interfaces[k].first.patch \in ps
                        /\ m.interfaces[k].second.patch \in ps })

\* first column of the Jacobian of patches 0 and 1 at the two interface ends
Tangents == { << 1, 0 >>, << 0, 1 >>, << -2, 0 >> }

Det2(a, b) == a[1] * b[2] - a[2] * b[1]

----------------------------------------------------------------------------
(* initialize_twoPatch *)

\* the two Jacobian-alignment tests; tangents are integer vectors, so the
\* squared determinant is 0 or at least 1 and "> 1e-25" reads "> 0"
KinkTwoPatch(m) ==
    IF VecLen(m.interfaces) = 0 THEN EmptyVec
    ELSE [e \in 0..1 |->
            IF e = 0
            THEN Det2(m.jac.p0_10, m.jac.p1_00) * Det2(m.jac.p0_10, m.jac.p1_00) > 0
            ELSE Det2(m.jac.p0_11, m.jac.p1_01) * Det2(m.jac.p0_11, m.jac.p1_01) > 0]

Dir(ps) == IF ps.side < 3 THEN 1 ELSE 0

Basis1(m, b, i) == Component(b[0][m.interfaces[i].first.patch], Dir(m.interfaces[i].first))

Basis2(m, b, i) == Component(b[0][m.interfaces[i].second.patch], Dir(m.interfaces[i].second))

MP2(m, b, i) == Min2(Basis1(m, b, i).p, Basis2(m, b, i).p)

MR2(m, b, i) ==
    LET mult == MultiplicityIndex(Basis1(m, b, i), Basis1(m, b, i).p + 1)
    IN  IF MP2(m, b, i) - mult > MP2(m, b, i) - 2
        THEN MP2(m, b, i) - 2
        ELSE MP2(m, b, i) - mult

MN2(m, b, i) == Min2(Basis1(m, b, i).n, Basis2(m, b, i).n)

\* two functions set aside per kink
NumIntBdyTwoPerKink(nm, kk) ==
    (IF nm THEN 8 ELSE 4) + (IF kk[0] THEN 2 ELSE 0) + (IF kk[1] THEN 2 ELSE 0)

NumIntBdy(nm, kk) ==
    (IF nm THEN 8 ELSE 4) + (IF kk[0] THEN 1 ELSE 0) + (IF kk[1] THEN 1 ELSE 0)

NumInnerKnot(m, b, ikm, i) ==
    IF ikm > 0 /\ MP2(m, b, i) - 1 - MR2(m, b, i) = 1 THEN 3 ELSE 0

InterfaceCount2(nm, m, b, ikm, kk, i) ==
    2 * (MP2(m, b, i) - MR2(m, b, i) - 1) * (MN2(m, b, i) - 1)
      + 2 * MP2(m, b, i) + 1 - NumIntBdy(nm, kk) + 2 * NumInnerKnot(m, b, ikm, i)

SizePlusInt2(m, b, ikm, i) ==
    (MP2(m, b, i) - MR2(m, b, i) - 1) * (MN2(m, b, i) - 1)
      + MP2(m, b, i) + 1 + NumInnerKnot(m, b, ikm, i)

BasisEdge(m, b, i) == Component(b[0][m.boundaries[i].patch], Dir(m.boundaries[i]))

BoundaryEdgeCount2(nm, m, b, i) ==
    IF nm THEN 2 * BasisSize1(BasisEdge(m, b, i)) - 8
    ELSE BasisSize1(BasisEdge(m, b, i)) - 4

EdgeCount2(nm, m, b, i) ==
    IF nm THEN 0 ELSE BasisSize1(BasisEdge(m, b, i)) - 4

SizePlusBdy2(m, b, i) == BasisSize1(BasisEdge(m, b, i)) - 4

\* every shared vertex taken for an interface-boundary vertex
KindOfVertexNeverInternal(m, i) ==
    IF VecLen(m.vertices[i]) = 1 THEN -1 ELSE 1

\* -1 boundary vertex, 0 internal vertex, 1 interface-boundary vertex
KindOfVertex(m, i) ==
    IF VecLen(m.vertices[i]) = 1 THEN -1
    ELSE IF VecLen(m.vertices[i]) = SubInterfaces(m, i) THEN 0
    ELSE 1

VertexCount2(nm, m, i) ==
    IF KindOfVertex(m, i) = -1 THEN (IF nm THEN 0 ELSE 1) ELSE 0

\* no function added at a kink
BoundaryVertexCount2NoKink(nm, m, kk, i) ==
    IF KindOfVertex(m, i) = -1 THEN (IF nm THEN 4 ELSE 3)
    ELSE IF KindOfVertex(m, i) = 0 THEN 0
    ELSE IF nm THEN 4
    ELSE 2

BoundaryVertexCount2(nm, m, kk, i) ==
    IF KindOfVertex(m, i) = -1 THEN (IF nm THEN 4 ELSE 3)
    ELSE IF KindOfVertex(m, i) = 0 THEN 0
    ELSE IF nm THEN 4
    ELSE 2 + (IF kk[IF i = 1 THEN 0 ELSE 1] THEN 1 ELSE 0)

PatchSizes(b, k, n) == [i \in 0..(n - 1) |-> TensorSize(b[k][i])]

\* numBasisFunctions[5]
InteriorTable(m, b) == CumTable(PatchSizes(b, 0, m.nPatches), m.nPatches)

\* numBasisFunctions[6] of initialize_twoPatch
InterfaceColumnTable2(iso, m, b) ==
    IF ~iso /\ VecLen(b) = 2
    THEN ShiftTable(CumTable(PatchSizes(b, 1, m.nPatches), m.nPatches),
                    Last(InteriorTable(m, b)))
    ELSE IF iso THEN CumTable(PatchSizes(b, 0, m.nPatches), m.nPatches)
    ELSE [i \in 0..m.nPatches |-> 0]

----------------------------------------------------------------------------
(* initialize *)

BasisEdgeI(m, b, i) == Component(b[0][m.interfaces[i].first.patch], Dir(m.interfaces[i].first))

\* (m_p - m_r - 1) * (m_n - 1) with m_r fixed to 1
PlusPart(be) == (be.p - 1 - 1) * (be.n - 1)

InterfaceCountM(m, b, i) ==
    2 * PlusPart(BasisEdgeI(m, b, i)) + 2 * BasisEdgeI(m, b, i).p - 9

SizePlusIntM(m, b, i) ==
    PlusPart(BasisEdgeI(m, b, i)) + BasisEdgeI(m, b, i).p + 1

BoundaryEdgeCountM(nm, m, b, i) ==
    IF nm THEN 2 * PlusPart(BasisEdge(m, b, i)) + 2 * BasisEdge(m, b, i).p + 1 - 10
    ELSE PlusPart(BasisEdge(m, b, i)) + BasisEdge(m, b, i).p + 1 - 6

EdgeCountM(nm, m, b, i) ==
    IF nm THEN 0
    ELSE PlusPart(BasisEdge(m, b, i)) + BasisEdge(m, b, i).p - 4

SizePlusBdyM(m, b, i) ==
    PlusPart(BasisEdge(m, b, i)) + BasisEdge(m, b, i).p + 1

VertexCountM(m, i) ==
    IF KindOfVertex(m, i) = -1 THEN 1
    ELSE IF KindOfVertex(m, i) = 0 THEN 6
    ELSE 3

BoundaryVertexCountM(m, i) ==
    IF KindOfVertex(m, i) = 0 THEN 0 ELSE 6

\* numBasisFunctions[6] of initialize
InterfaceColumnTableM(iso, m, b) ==
    IF iso THEN CumTable(PatchSizes(b, 0, m.nPatches), m.nPatches)
    ELSE [i \in 0..m.nPatches |-> 0]

----------------------------------------------------------------------------
(* The seven chained tables, both modes *)

NI(m) == VecLen(m.interfaces)

NB(m) == VecLen(m.boundaries)

NV(m) == VecLen(m.vertices)

\* per-entity counts of categories 0..4 before chaining
Counts(tp, nm, m, b, ikm, kk, k) ==
    IF k = 0 THEN [i \in 0..(NI(m) - 1) |->
                     IF tp THEN InterfaceCount2(nm, m, b, ikm, kk, i)
                     ELSE InterfaceCountM(m, b, i)]
    ELSE IF k = 1 THEN [i \in 0..(NB(m) - 1) |->
                     IF tp THEN EdgeCount2(nm, m, b, i) ELSE EdgeCountM(nm, m, b, i)]
    ELSE IF k = 2 THEN [i \in 0..(NV(m) - 1) |->
                     IF tp THEN VertexCount2(nm, m, i) ELSE VertexCountM(m, i)]
    ELSE IF k = 3 THEN [i \in 0..(NB(m) - 1) |->
                     IF tp THEN BoundaryEdgeCount2(nm, m, b, i)
                     ELSE BoundaryEdgeCountM(nm, m, b, i)]
    ELSE [i \in 0..(NV(m) - 1) |->
                     IF tp THEN BoundaryVertexCount2(nm, m, kk, i)
                     ELSE BoundaryVertexCountM(m, i)]

NumEntities(m, k) ==
    IF k = 0 THEN NI(m)
    ELSE IF k \in {1, 3} THEN NB(m)
    ELSE IF k \in {2, 4} THEN NV(m)
    ELSE m.nPatches

\* the counts are taken once per entity and summed into a stored table
\* (@@ with the empty vector leaves a function as it is)
LocalTable(tp, nm, m, b, ikm, kk, k) ==
    CumTable(Counts(tp, nm, m, b, ikm, kk, k) @@ EmptyVec, NumEntities(m, k)) @@ EmptyVec

\* a table shifted by the first instead of the last entry of its predecessor
ChainByFirst(prev, local) == ShiftTable(local, prev[0])

\* numBasisFunctions[k] = numBasisFunctions[k].array() + numBasisFunctions[k-1].last()
Chain(prev, local) == ShiftTable(local, Last(prev))

Mapper(tp, nm, iso, m, b, ikm, kk) ==
    LET t0 == LocalTable(tp, nm, m, b, ikm, kk, 0)
        t1 == Chain(t0, LocalTable(tp, nm, m, b, ikm, kk, 1))
        t2 == Chain(t1, LocalTable(tp, nm, m, b, ikm, kk, 2))
        t3 == Chain(t2, LocalTable(tp, nm, m, b, ikm, kk, 3))
        t4 == Chain(t3, LocalTable(tp, nm, m, b, ikm, kk, 4))
        t5 == InteriorTable(m, b)
        t6 == IF tp THEN InterfaceColumnTable2(iso, m, b)
                    ELSE InterfaceColumnTableM(iso, m, b)
    IN  [k \in 0..6 |->
            CASE k = 0 -> t0 [] k = 1 -> t1 [] k = 2 -> t2 [] k = 3 -> t3
              [] k = 4 -> t4 [] k = 5 -> t5 [] OTHER -> t6]

SizePlusIntVec(tp, m, b, ikm) ==
    [i \in 0..(NI(m) - 1) |->
        IF tp THEN SizePlusInt2(m, b, ikm, i) ELSE SizePlusIntM(m, b, i)]

SizePlusBdyVec(tp, m, b) ==
    [i \in 0..(NB(m) - 1) |->
        IF tp THEN SizePlusBdy2(m, b, i) ELSE SizePlusBdyM(m, b, i)]

KindOfVertexVec(m) == [i \in 0..(NV(m) - 1) |-> KindOfVertex(m, i)]

\* double -> size_t: exact for a non-negative value; undefined for a negative
\* one, where builds give either the wrapped value (kept as v) or 0
ToSizeT(v) == IF v >= 0 THEN {v} ELSE {v, 0}

----------------------------------------------------------------------------
(* Constructor arguments *)

\* one element (no inner knot) or MaxElems elements
BasisSet ==
    { b \in [p : 1..MaxDegree, mult : 1..MaxMult, n : {1, MaxElems}] : b.mult <= b.p }

\* patches alternate between the two orientations of a pair of bases
MultiBasis(bU, bV, n) ==
    [i \in 0..(n - 1) |-> IF i % 2 = 0 THEN [u |-> bU, v |-> bV]
                                       ELSE [u |-> bV, v |-> bU]]

MultiBases(bA, bB, n, nb) ==
    [k \in 0..(nb - 1) |-> IF k = 0 THEN MultiBasis(bA, bB, n)
                                    ELSE MultiBasis(bB, bA, n)]

Straight == [p0_10 |-> << 1, 0 >>, p1_00 |-> << 1, 0 >>,
             p0_11 |-> << 1, 0 >>, p1_01 |-> << 1, 0 >>]

Jacobians == [p0_10 : {<< 1, 0 >>}, p1_00 : Tangents,
              p0_11 : {<< 1, 0 >>}, p1_01 : Tangents]

WithJac(t, j) ==
    [nPatches |-> t.nPatches, interfaces |-> t.interfaces,
     boundaries |-> t.boundaries, vertices |-> t.vertices, jac |-> j]

ZeroVec(n) == [i \in 0..(n - 1) |-> 0]

EmptyMat == [c \in {} |-> << >>]

\* no solve or reconstruction since the last change of the system
NoRet == [op |-> "none", arg |-> 0, info |-> "none", raised |-> FALSE]

\* stepsize has not been called
NoSearch == [pc |-> "idle"]

\* the two bases of a pair differ in the degree, in the multiplicity or in
\* the number of elements, or in none of them
SameButOne(bA, bB) ==
    Cardinality({ f \in {"p", "mult", "n"} : bA[f] # bB[f] }) <= 1

\* the constructor arguments: the Jacobians and innerKnotMulti are read at an
\* interface only and vary on the domain with one interface; the second
\* multi-basis is read only when m_isogeometric is off

\* a system under construction: the members before the constructor body
Unbuilt ==
    /\ allocator = "none"
    /\ built = FALSE
    /\ numBasisFunctions = [k \in 0..6 |-> EmptyVec]
    /\ kindOfVertex = EmptyVec
    /\ sizePlusInt = EmptyVec
    /\ sizePlusBdy = EmptyVec
    /\ kink = EmptyVec
    /\ dim_K = 0
    /\ dim_G1_Dofs = 0
    /\ dim_G1_Bdy = 0
    /\ D_sparse = EmptyMat
    /\ D_0_sparse = EmptyMat
    /\ D_boundary_sparse = EmptyMat
    /\ m_g1 = EmptyVec
    /\ nFinalize = 0
    /\ calls = {}
    /\ aborted = FALSE
    /\ ret = NoRet

InitAlloc ==
    /\ ls = NoSearch
    /\ Unbuilt
    /\ m_twoPatch \in BOOLEAN
    /\ m_neumannBdy \in BOOLEAN
    /\ m_isogeometric \in BOOLEAN
    /\ innerKnotMulti \in 0..1
    /\ mp \in { WithJac(t, j) : t \in Topologies, j \in Jacobians }
    /\ NI(mp) # 1 => innerKnotMulti = 0 /\ mp.jac = Straight
    /\ \E bA \in BasisSet, bB \in BasisSet, nb \in 1..2 :
          /\ SameButOne(bA, bB)
          /\ m_isogeometric => nb = 1
          /\ mb = MultiBases(bA, bB, mp.nPatches, nb)

\* the body shared by the two initializers; tp tells initialize_twoPatch
\* from initialize.  kink is resized and set inside the interface loop of
\* initialize_twoPatch only.  The three matrices and m_g1 are resized to
\* dim_G1_Dofs + dim_G1_Bdy + dim_K rows: a negative row count stops a build
\* with assertions and is taken as it comes by one without.
Allocate(tp, ikm) ==
    /\ kink' = (IF tp /\ NI(mp) > 0 THEN KinkTwoPatch(mp) ELSE kink)
    /\ numBasisFunctions' = Mapper(tp, m_neumannBdy, m_isogeometric,
                                   mp, mb, ikm, kink')
    /\ kindOfVertex' = KindOfVertexVec(mp)
    /\ sizePlusInt' = SizePlusIntVec(tp, mp, mb, ikm)
    /\ sizePlusBdy' = SizePlusBdyVec(tp, mp, mb)
    /\ dim_K' \in ToSizeT(Last(numBasisFunctions'[6]))
    /\ dim_G1_Dofs' \in ToSizeT(Last(numBasisFunctions'[2]))
    /\ dim_G1_Bdy' \in ToSizeT(Last(numBasisFunctions'[4]) - numBasisFunctions'[3][0])
    /\ m_g1' = ZeroVec(dim_G1_Dofs' + dim_G1_Bdy' + dim_K')
    /\ D_sparse' = EmptyMat
    /\ D_0_sparse' = EmptyMat
    /\ D_boundary_sparse' = EmptyMat
    /\ aborted' \in (IF dim_G1_Dofs' + dim_G1_Bdy' + dim_K' < 0
                      THEN BOOLEAN ELSE {FALSE})
    /\ allocator' = (IF tp THEN "initialize_twoPatch" ELSE "initialize")
    /\ built' = TRUE
    /\ nFinalize' = 0
    /\ calls' = {}
    /\ ret' = NoRet
    /\ UNCHANGED << ls, m_twoPatch, m_neumannBdy, m_isogeometric, mp, mb,
                    innerKnotMulti >>

\* gsG1System::gsG1System: initialize_twoPatch or initialize
Construct ==
    /\ ~built
    /\ Allocate(m_twoPatch, innerKnotMulti)

\* the public initialize called on a constructed object
Initialize ==
    /\ built /\ ~aborted
    /\ Allocate(FALSE, innerKnotMulti)

\* the public initialize_twoPatch called on a constructed object
InitializeTwoPatch ==
    /\ built /\ ~aborted
    /\ Allocate(TRUE, innerKnotMulti)

NextAlloc ==
    \/ Construct
    \/ Initialize
    \/ InitializeTwoPatch

SpecAlloc == InitAlloc /\ [][NextAlloc]_vars

----------------------------------------------------------------------------
(* Sparse matrices.  A matrix is a function from the cells << row, col >>  *)
(* that hold entries to the sequence of values inserted there, in order:   *)
(* insert() does not look for an existing entry, so a second insert on a   *)
(* cell leaves two entries.                                                *)

\* 10e-25 in units of 1e-26
PruneTol == 100

\* the entry 1 of the identity block; 1.0 is 10^13 units, beyond the integers
\* of the model, and is kept as a value above every coefficient of a piece
One == 1000

\* a pruning test that only drops exact zeros
StoredNonZero(c) == c * c > 0

Stored(c) == c * c > PruneTol

Rows == dim_G1_Dofs + dim_G1_Bdy + dim_K

InRange(r, c) == r >= 0 /\ r < Rows /\ c >= 0 /\ c < dim_K

MatInsert(M, r, c, v) ==
    IF << r, c >> \in DOMAIN M
    THEN [M EXCEPT ![<< r, c >>] = Append(@, v)]
    ELSE M @@ (<< r, c >> :> << v >>)

RECURSIVE MatInsertAll(_, _, _)
MatInsertAll(M, ws, k) ==
    IF k > Len(ws) THEN M
    ELSE MatInsertAll(MatInsert(M, ws[k][1], ws[k][2], ws[k][3]), ws, k + 1)

\* insert() asserts that the cell is inside the matrix and still empty
RECURSIVE WritesOK(_, _, _)
WritesOK(M, ws, k) ==
    IF k > Len(ws) THEN TRUE
    ELSE /\ InRange(ws[k][1], ws[k][2])
         /\ << ws[k][1], ws[k][2] >> \notin DOMAIN M
         /\ WritesOK(MatInsert(M, ws[k][1], ws[k][2], ws[k][3]), ws, k + 1)

RECURSIVE Flatten(_, _)
Flatten(ss, k) == IF k > Len(ss) THEN << >> ELSE ss[k] \o Flatten(ss, k + 1)

SetMin(S) == CHOOSE x \in S : \A y \in S : x <= y

\* the elements of a set of integers in increasing order
RECURSIVE Ascending(_)
Ascending(S) == IF S = {} THEN << >> ELSE << SetMin(S) >> \o Ascending(S \ {SetMin(S)})

----------------------------------------------------------------------------
(* The pieces handed to the insertion calls: one coefficient vector per    *)
(* contributing patch.  A pattern << a, b, c, d >> is the vector with   *)
(* a, b, c at indices 0, 1, 2, d at the last index and 0 elsewhere.  In   *)
(* units of 1e-13: 3 has a square below 1e-25, 4 one between 1e-25 and     *)
(* 10e-25, 10 one of 10e-25 exactly, 11 one above.                         *)

Patterns == { << 4, 3, 10, -11 >> }

CoefVec(pat, n) ==
    [j \in 0..(n - 1) |->
        IF j = 0 THEN pat[1]
        ELSE IF j = n - 1 THEN pat[4]
        ELSE IF j = 1 THEN pat[2]
        ELSE IF j = 2 THEN pat[3]
        ELSE 0]

\* interface pieces live in the second basis unless isogeometric
IfaceBasis == IF m_isogeometric \/ VecLen(mb) = 1 THEN 0 ELSE 1

----------------------------------------------------------------------------
(* insertInterfaceEdge *)

\* rows written for one coefficient of ordinal bfID, in the order written
\* routing without the rerouted end functions
InterfaceRowsNoReroute(iID, bfID) == << numBasisFunctions[0][iID] + bfID >>

InterfaceRows(iID, bfID) ==
    IF m_twoPatch /\ ~m_neumannBdy
    THEN LET plusInt == sizePlusInt[0]
         IN  IF bfID = 0 \/ bfID = plusInt - 1 \/ bfID = plusInt \/ bfID = 2 * plusInt - 2
             THEN (IF bfID = 0 \/ bfID = plusInt
                   THEN << numBasisFunctions[4][1] + (IF bfID = 0 THEN 0 ELSE 1) >>
                   ELSE << >>)
                  \o
                  (IF bfID = plusInt - 1 \/ bfID = 2 * plusInt - 2
                   THEN << numBasisFunctions[4][3] + (IF bfID = plusInt - 1 THEN 0 ELSE 1) >>
                   ELSE << >>)
             ELSE IF bfID = 1 /\ kink[0]
             THEN << numBasisFunctions[4][1] + 2 >>
             ELSE IF bfID = plusInt - 2 /\ kink[1]
             THEN << numBasisFunctions[4][3] + 2 >>
             ELSE LET bfID_shift ==
                        IF bfID < plusInt - (IF kink[1] THEN 2 ELSE 1)
                        THEN (IF kink[0] THEN 2 ELSE 1)
                        ELSE 3 + (IF kink[0] THEN 1 ELSE 0) + (IF kink[1] THEN 1 ELSE 0)
                  IN  << numBasisFunctions[0][iID] + bfID - bfID_shift >>
    ELSE << numBasisFunctions[0][iID] + bfID >>

InterfacePatch(item, np) == IF np = 0 THEN item.first.patch ELSE item.second.patch

\* the indices j of the coefficients that pass the pruning test, in loop order
StoredIndices(coefs) == Ascending({ j \in DOMAIN coefs : Stored(coefs[j]) })

\* the writes of the j loop for patch np of the piece
InterfacePatchWrites(piece, item, iID, bfID, np) ==
    LET rows == InterfaceRows(iID, bfID)
        js == StoredIndices(piece[np])
        col0 == numBasisFunctions[6][InterfacePatch(item, np)]
    IN  Flatten([k \in 1..Len(js) |->
                   [r \in 1..Len(rows) |-> << rows[r], col0 + js[k], piece[np][js[k]] >>]], 1)

InterfaceWrites(piece, item, iID, bfID) ==
    InterfacePatchWrites(piece, item, iID, bfID, 0)
      \o InterfacePatchWrites(piece, item, iID, bfID, 1)

----------------------------------------------------------------------------
(* insertBoundaryEdge *)

\* the multi-patch split taken at sizePlusBdy as in two-patch mode
BoundaryRowOneSplit(bID, bfID) ==
    IF ~m_neumannBdy
    THEN IF ULess(bfID, sizePlusBdy[bID])
         THEN numBasisFunctions[3][bID] + bfID
         ELSE numBasisFunctions[1][bID] + bfID - sizePlusBdy[bID]
    ELSE numBasisFunctions[3][bID] + bfID

BoundaryRow(bID, bfID) ==
    IF m_twoPatch /\ ~m_neumannBdy
    THEN IF ULess(bfID, sizePlusBdy[bID])
         THEN numBasisFunctions[3][bID] + bfID
         ELSE numBasisFunctions[1][bID] + bfID - sizePlusBdy[bID]
    ELSE IF ~m_neumannBdy
    THEN IF ULess(bfID, sizePlusBdy[bID] - 6)
         THEN numBasisFunctions[3][bID] + bfID
         ELSE numBasisFunctions[1][bID] + bfID - sizePlusBdy[bID] + 6
    ELSE numBasisFunctions[3][bID] + bfID

BoundaryWrites(piece, item, bID, bfID) ==
    LET js == StoredIndices(piece[0])
        row == BoundaryRow(bID, bfID)
        col0 == numBasisFunctions[5][item.patch]
    IN  [k \in 1..Len(js) |-> << row, col0 + js[k], piece[0][js[k]] >>]

----------------------------------------------------------------------------
(* insertVertex *)

\* an interior vertex split like the other kinds, at 3
VertexRowInteriorSplit(vID, nDofs, bfID) ==
    IF kindOfVertex[vID] = 0
    THEN IF bfID < 3 THEN numBasisFunctions[2][vID] + bfID
         ELSE numBasisFunctions[4][vID] + bfID - 3
    ELSE IF bfID < nDofs THEN numBasisFunctions[2][vID] + bfID
    ELSE numBasisFunctions[4][vID] + bfID - nDofs

VertexRow(vID, nDofs, bfID) ==
    IF kindOfVertex[vID] = 0 THEN numBasisFunctions[2][vID] + bfID
    ELSE IF kindOfVertex[vID] = -1
    THEN IF bfID < nDofs THEN numBasisFunctions[2][vID] + bfID
         ELSE numBasisFunctions[4][vID] + bfID - nDofs
    ELSE IF kindOfVertex[vID] = 1
    THEN IF bfID < nDofs THEN numBasisFunctions[2][vID] + bfID
         ELSE numBasisFunctions[4][vID] + bfID - nDofs
    ELSE -1

VertexPatchWrites(piece, patchIndex, vID, nDofs, bfID, np) ==
    LET js == StoredIndices(piece[np])
        row == VertexRow(vID, nDofs, bfID)
        col0 == numBasisFunctions[5][patchIndex[np]]
    IN  [k \in 1..Len(js) |-> << row, col0 + js[k], piece[np][js[k]] >>]

VertexWrites(piece, patchIndex, vID, nDofs, bfID) ==
    Flatten([np \in 1..VecLen(piece) |->
               VertexPatchWrites(piece, patchIndex, vID, nDofs, bfID, np - 1)], 1)

----------------------------------------------------------------------------
(* The insertion calls *)

\* D_sparse.insert for the writes ws of one call: a build with assertions
\* stops at a write outside the matrix or on an occupied cell, a build
\* without them stores the entry regardless
ApplyWrites(ws) ==
    IF WritesOK(D_sparse, ws, 1)
    THEN /\ D_sparse' = MatInsertAll(D_sparse, ws, 1)
         /\ aborted' = FALSE
    ELSE \/ /\ D_sparse' = D_sparse
            /\ aborted' = TRUE
         \/ /\ D_sparse' = MatInsertAll(D_sparse, ws, 1)
            /\ aborted' = FALSE

\* the insertion calls of one run: MaxInserts, and one more on a system
\* kinked at both ends of its interface, which reroutes a function more at
\* each end
InsertBound ==
    MaxInserts + (IF VecLen(kink) = 2 /\ kink[0] /\ kink[1] THEN 1 ELSE 0)

CanInsert == built /\ ~aborted /\ Cardinality(calls) < InsertBound

Called(kind, id, bfID) ==
    \E c \in calls : c.kind = kind /\ c.id = id /\ c.bfID = bfID

TableCount(k, i) == numBasisFunctions[k][i + 1] - numBasisFunctions[k][i]

\* the ordinals of the functions of interface iID: all plus and minus
\* functions where the call reroutes some of them, the allotted block otherwise
InterfaceOrdinals(iID) ==
    IF m_twoPatch /\ ~m_neumannBdy
    THEN 0..(2 * sizePlusInt[iID] - 2)
    ELSE 0..(TableCount(0, iID) - 1)

BoundaryOrdinals(bID) == 0..(TableCount(3, bID) + TableCount(1, bID) - 1)

VertexOrdinals(vID) == 0..(TableCount(2, vID) + TableCount(4, vID) - 1)

FrameInsert ==
    /\ ret' = NoRet
    /\ UNCHANGED << ls, allocator, m_twoPatch, m_neumannBdy, m_isogeometric, mp, mb, innerKnotMulti,
                    built, numBasisFunctions, kindOfVertex, sizePlusInt, sizePlusBdy,
                    kink, dim_K, dim_G1_Dofs, dim_G1_Bdy, D_0_sparse,
                    D_boundary_sparse, m_g1, nFinalize >>

\* the pieces of the three kinds of call, one coefficient vector per patch
InterfacePiece(iID, pat) ==
    [np \in 0..1 |->
        CoefVec(pat, TensorSize(mb[IfaceBasis][InterfacePatch(mp.interfaces[iID], np)]))]

BoundaryPiece(bID, pat) ==
    [np \in 0..0 |-> CoefVec(pat, TensorSize(mb[0][mp.boundaries[bID].patch]))]

PatchIndex(vID) == [np \in DOMAIN mp.vertices[vID] |-> mp.vertices[vID][np].patch]

VertexPiece(vID, pat) ==
    [np \in DOMAIN mp.vertices[vID] |-> CoefVec(pat, TensorSize(mb[0][PatchIndex(vID)[np]]))]

\* the D_sparse.insert calls of one insertion call, in the order made
CallWrites(c) ==
    IF c.kind = "interface"
    THEN InterfaceWrites(InterfacePiece(c.id, c.pat), mp.interfaces[c.id], c.id, c.bfID)
    ELSE IF c.kind = "boundary"
    THEN BoundaryWrites(BoundaryPiece(c.id, c.pat), mp.boundaries[c.id], c.id, c.bfID)
    ELSE VertexWrites(VertexPiece(c.id, c.pat), PatchIndex(c.id), c.id,
                      TableCount(2, c.id), c.bfID)

InsertInterfaceEdge ==
    /\ CanInsert
    /\ \E iID \in DOMAIN mp.interfaces, pat \in Patterns :
       \E bfID \in InterfaceOrdinals(iID) :
          LET c == [kind |-> "interface", id |-> iID, bfID |-> bfID, pat |-> pat]
          IN  /\ ~Called("interface", iID, bfID)
              /\ ApplyWrites(CallWrites(c))
              /\ calls' = calls \cup {c}
    /\ FrameInsert

InsertBoundaryEdge ==
    /\ CanInsert
    /\ \E bID \in DOMAIN mp.boundaries, pat \in Patterns :
       \E bfID \in BoundaryOrdinals(bID) :
          LET c == [kind |-> "boundary", id |-> bID, bfID |-> bfID, pat |-> pat]
          IN  /\ ~Called("boundary", bID, bfID)
              /\ ApplyWrites(CallWrites(c))
              /\ calls' = calls \cup {c}
    /\ FrameInsert

InsertVertex ==
    /\ CanInsert
    /\ \E vID \in DOMAIN mp.vertices, pat \in Patterns :
       \E bfID \in VertexOrdinals(vID) :
          LET c == [kind |-> "vertex", id |-> vID, bfID |-> bfID, pat |-> pat]
          IN  /\ ~Called("vertex", vID, bfID)
              /\ ApplyWrites(CallWrites(c))
              /\ calls' = calls \cup {c}
    /\ FrameInsert

----------------------------------------------------------------------------
(* finalize *)

DimU(np) == BasisSize1(Component(mb[0][np], 0))

DimV(np) == BasisSize1(Component(mb[0][np], 1))

Max0(a) == IF a > 0 THEN a ELSE 0

\* the loop with a margin of one layer instead of two
InteriorIndicesOneLayer(np) ==
    LET nu == Max0(DimU(np) - 2)
        nv == Max0(DimV(np) - 2)
        du == DimU(np)
    IN  [k \in 1..(nu * nv) |-> (1 + ((k - 1) \div nu)) * du + 1 + ((k - 1) % nu)]

\* local indices j * dim_u + i visited by the (j, i) double loop of patch np,
\* 2 <= j < dim_v - 2 and 2 <= i < dim_u - 2, in loop order
InteriorIndices(np) ==
    LET nu == Max0(DimU(np) - 4)
        nv == Max0(DimV(np) - 4)
        du == DimU(np)
    IN  [k \in 1..(nu * nv) |-> (2 + ((k - 1) \div nu)) * du + 2 + ((k - 1) % nu)]

\* D_sparse.insert(ii, jj) = 1 for the strictly interior coefficients
IdentityPatchWrites(np) ==
    LET idx == InteriorIndices(np)
        row0 == dim_G1_Dofs + dim_G1_Bdy + numBasisFunctions[5][np]
        col0 == numBasisFunctions[5][np]
    IN  [k \in 1..Len(idx) |-> << row0 + idx[k], col0 + idx[k], One >>]

IdentityWrites ==
    Flatten([np \in 1..mp.nPatches |-> IdentityPatchWrites(np - 1)], 1)

\* a selector that also keeps the boundary rows
B0DiagAllG1(idw, r) ==
    (IF ULess(r, dim_G1_Dofs + dim_G1_Bdy) THEN 1 ELSE 0)
    + Cardinality({ k \in 1..Len(idw) : idw[k][1] = r })

\* diagonal of B_0_sparse, given the identity writes idw: number of entries
\* stored at (r, r); the first loop compares two size_t
B0Diag(idw, r) ==
    (IF ULess(r, dim_G1_Dofs) THEN 1 ELSE 0)
    + Cardinality({ k \in 1..Len(idw) : idw[k][1] = r })

\* diagonal of B_boundary_sparse: an entry at dim_G1_Dofs + i for every
\* size_t i below dim_G1_Bdy
BBoundaryDiag(r) ==
    IF ULess(r - dim_G1_Dofs, dim_G1_Bdy) THEN 1 ELSE 0

RECURSIVE SeqSum(_, _)
SeqSum(q, k) == IF k > Len(q) THEN 0 ELSE q[k] + SeqSum(q, k + 1)

\* the coefficient of M at a cell: entries stored on one cell add up
Val(M, cell) == IF cell \in DOMAIN M THEN SeqSum(M[cell], 1) ELSE 0

\* diag * M for a diagonal selector matrix
SelectRows(diag(_), M) ==
    [c \in { d \in DOMAIN M : diag(d[1]) > 0 } |-> << diag(c[1]) * SeqSum(M[c], 1) >>]

\* the two diagonal loops of finalize come to an end inside the matrices: a
\* wrapped dim_G1_Dofs or dim_G1_Bdy is a bound no row index reaches
LoopsEnd == dim_G1_Dofs >= 0 /\ dim_G1_Bdy >= 0

\* the insertions of finalize stay inside B_0_sparse and D_sparse and meet
\* no occupied cell
FinalizeOK(idw) ==
    /\ LoopsEnd
    /\ WritesOK(D_sparse, idw, 1)
    /\ \A k \in 1..Len(idw) : idw[k][1] >= dim_G1_Dofs /\ idw[k][1] < Rows

\* prescribed boundary values, one per fixed-category row: 1 everywhere but
\* 2 on the second row
GVectors(n) == { [i \in 0..(n - 1) |-> IF i = 1 THEN 2 ELSE 1] }

\* a block written at the top of the vector
SetBlockAtTop(v, start, g) ==
    [i \in DOMAIN v |-> IF i >= 0 /\ i < VecLen(g) THEN g[i] ELSE v[i]]

\* v.block(start, 0, n, 1) = g
SetBlock(v, start, g) ==
    [i \in DOMAIN v |->
        IF i >= start /\ i < start + VecLen(g) THEN g[i - start] ELSE v[i]]

Finalize ==
    /\ built /\ ~aborted
    /\ nFinalize < MaxFinalize
    /\ LET idw == IdentityWrites
       IN  \/ /\ LoopsEnd
              /\ aborted' = FALSE
              /\ D_sparse' = MatInsertAll(D_sparse, idw, 1)
              /\ D_0_sparse' = SelectRows(LAMBDA r : B0Diag(idw, r), D_sparse')
              /\ D_boundary_sparse' = SelectRows(BBoundaryDiag, D_sparse')
              /\ \E g1 \in GVectors(dim_G1_Bdy) :
                    m_g1' = SetBlock(m_g1, dim_G1_Dofs, g1)
           \/ /\ ~FinalizeOK(idw)
              /\ aborted' = TRUE
              /\ UNCHANGED << D_sparse, D_0_sparse, D_boundary_sparse, m_g1 >>
    /\ nFinalize' = nFinalize + 1
    /\ ret' = NoRet
    /\ UNCHANGED << ls, allocator, m_twoPatch, m_neumannBdy, m_isogeometric, mp, mb, innerKnotMulti,
                    built, numBasisFunctions, kindOfVertex, sizePlusInt, sizePlusBdy,
                    kink, dim_K, dim_G1_Dofs, dim_G1_Bdy, calls >>

----------------------------------------------------------------------------
(* solve, constructG1Solution, constructSparseG1Solution *)

\* the state of the conjugate gradient solver after solve()
SolverInfos == { "Success", "NoConvergence" }

\* the solution vector handed to the reconstructions, one entry per row of D:
\* the constant vector of ones
SolArgs == {1}

SolVector(a) == [i \in 0..(Rows - 1) |-> a]

Returned(op, a, info) == [op |-> op, arg |-> a, info |-> info, raised |-> FALSE]

FrameRead ==
    UNCHANGED << ls, allocator, m_twoPatch, m_neumannBdy, m_isogeometric, mp, mb, innerKnotMulti,
                 built, numBasisFunctions, kindOfVertex, sizePlusInt, sizePlusBdy,
                 kink, dim_K, dim_G1_Dofs, dim_G1_Bdy, D_sparse, D_0_sparse,
                 D_boundary_sparse, m_g1, nFinalize, calls >>

\* solve assembles the reduced system from D_0, D_boundary and m_g1, runs the
\* conjugate gradient solver and returns its iterate x0; the state the solver
\* ends in is not looked at
Solve ==
    /\ built /\ ~aborted
    /\ \E info \in SolverInfos : ret' = Returned("solve", 0, info)
    /\ aborted' = FALSE
    /\ FrameRead

\* the multi-basis constructG1Solution takes the interface pieces from
RecBasis == IF m_isogeometric THEN 0 ELSE 1

\* D_sparse.block(r, c0, 1, n) asserts that the block lies inside the matrix
BlockOK(r, c0, n) ==
    r >= 0 /\ r < Rows /\ c0 >= 0 /\ n >= 0 /\ c0 + n <= dim_K

BlockRow(r, c0, n) == [j \in 0..(n - 1) |-> Val(D_sparse, << r, c0 + j >>)]

Scale(v, a) == [j \in DOMAIN v |-> v[j] * a]

\* one addPatch of constructG1Solution: the row read, the patch it goes to,
\* the column table and multi-basis used, and whether m_g1 scales it
Slot(row, patch, tab, bas, fixed) ==
    [row |-> row, patch |-> patch, tab |-> tab, bas |-> bas, fixed |-> fixed]

SlotRun(k, id, patch, tab, bas, fixed) ==
    [i \in 1..Max0(TableCount(k, id)) |->
        Slot(numBasisFunctions[k][id] + i - 1, patch, tab, bas, fixed)]

InterfaceSlots(rowInt) ==
    SlotRun(0, rowInt, mp.interfaces[rowInt].first.patch, 6, RecBasis, FALSE)
      \o SlotRun(0, rowInt, mp.interfaces[rowInt].second.patch, 6, RecBasis, FALSE)

BoundarySlots(rowEdge) ==
    SlotRun(3, rowEdge, mp.boundaries[rowEdge].patch, 5, 0, TRUE)
      \o SlotRun(1, rowEdge, mp.boundaries[rowEdge].patch, 5, 0, FALSE)

CornerSlots(rowVertex, j) ==
    LET patchIdx == mp.vertices[rowVertex][j].patch
    IN  (IF rowVertex = 1 \/ rowVertex = 3
         THEN SlotRun(4, rowVertex, patchIdx, 6, RecBasis, TRUE)
         ELSE SlotRun(4, rowVertex, patchIdx, 5, 0, TRUE))
          \o SlotRun(2, rowVertex, patchIdx, 5, 0, FALSE)

VertexSlots(rowVertex) ==
    Flatten([j \in 1..VecLen(mp.vertices[rowVertex]) |-> CornerSlots(rowVertex, j - 1)], 1)

\* every addPatch of one constructG1Solution call, in the order made
G1Slots ==
    Flatten([r \in 1..VecLen(mp.interfaces) |-> InterfaceSlots(r - 1)], 1)
      \o Flatten([r \in 1..VecLen(mp.boundaries) |-> BoundarySlots(r - 1)], 1)
      \o Flatten([r \in 1..VecLen(mp.vertices) |-> VertexSlots(r - 1)], 1)

SlotColumn(s) == numBasisFunctions[s.tab][s.patch]

SlotOK(s) ==
    /\ s.bas < VecLen(mb)
    /\ BlockOK(s.row, SlotColumn(s), TensorSize(mb[s.bas][s.patch]))

\* the coefficients of the piece added for slot s
SlotPiece(s, sol) ==
    Scale(BlockRow(s.row, SlotColumn(s), TensorSize(mb[s.bas][s.patch])),
          IF s.fixed THEN m_g1[s.row] ELSE sol[s.row])

\* result: per patch, the pieces added to it, in the order added
G1Solution(sol) ==
    [p \in 0..(mp.nPatches - 1) |->
        LET mine == SelectSeq(G1Slots, LAMBDA s : s.patch = p)
        IN  [k \in 1..Len(mine) |-> SlotPiece(mine[k], sol)]]

SlotSet == LET q == G1Slots IN { q[k] : k \in 1..Len(q) }

G1ReadOK == \A s \in SlotSet : SlotOK(s)

\* a block outside the matrix, or a multi-basis mb does not hold, stops a
\* build with assertions or the process; a build without assertions may as
\* well read whatever is addressed and return
ConstructG1Solution ==
    /\ built /\ ~aborted
    /\ \E a \in SolArgs :
          \/ /\ ret' = Returned("g1", a, "none")
             /\ aborted' = FALSE
          \/ /\ ~G1ReadOK
             /\ ret' = NoRet
             /\ aborted' = TRUE
    /\ FrameRead

\* the factor of row r of the sparse result
RowFactor(sol, r) ==
    IF ULess(r, dim_G1_Dofs) THEN sol[r]
    ELSE IF ULess(r, dim_G1_Dofs + dim_G1_Bdy) THEN m_g1[r]
    ELSE 1

\* D_sparse.block(0, 0, dim_G1_Dofs + dim_G1_Bdy + 1, dim_K) with its rows scaled
ScaledBlock(sol) ==
    LET top == { cell \in DOMAIN D_sparse :
                    /\ cell[1] >= 0 /\ cell[1] <= dim_G1_Dofs + dim_G1_Bdy
                    /\ cell[2] >= 0 /\ cell[2] < dim_K }
    IN  [cell \in top |->
            [k \in DOMAIN D_sparse[cell] |-> D_sparse[cell][k] * RowFactor(sol, cell[1])]]

\* the scaled block with the interior solution inserted into the row after the
\* G1 rows
SparseSolution(sol) ==
    LET blk == ScaledBlock(sol)
        row == dim_G1_Dofs + dim_G1_Bdy
    IN  [cell \in DOMAIN blk \cup { << row, c >> : c \in 0..(dim_K - 1) } |->
            (IF cell \in DOMAIN blk THEN blk[cell] ELSE << >>)
              \o (IF cell[1] = row THEN << sol[row + cell[2]] >> ELSE << >>)]

\* the three size_t loops of the sparse reconstruction end: the first runs
\* i up to dim_G1_Dofs, the second from dim_G1_Dofs up to dim_G1_Dofs +
\* dim_G1_Bdy, the third up to dim_K, all compared unsigned
SparseLoopsEnd ==
    /\ dim_G1_Dofs >= 0
    /\ dim_G1_Dofs + dim_G1_Bdy >= 0
    /\ dim_K >= 0

\* the loops end, the block lies inside D_sparse with one row below the G1
\* rows, the rows scaled by the first loop lie inside the block, and insert
\* finds empty cells
SparseReadOK ==
    /\ SparseLoopsEnd
    /\ dim_G1_Dofs + dim_G1_Bdy + 1 <= Rows
    /\ dim_G1_Dofs <= dim_G1_Dofs + dim_G1_Bdy + 1
    /\ \A c \in 0..(dim_K - 1) : << dim_G1_Dofs + dim_G1_Bdy, c >> \notin DOMAIN D_sparse

\* a reconstruction that scales and fills D_sparse itself instead of a copy
ConstructSparseInPlace ==
    /\ built /\ ~aborted
    /\ \E a \in SolArgs :
          \/ /\ SparseLoopsEnd
             /\ ret' = Returned("sparse", a, "none")
             /\ aborted' = FALSE
             /\ D_sparse' = SparseSolution(SolVector(a))
          \/ /\ ~SparseReadOK
             /\ ret' = NoRet
             /\ aborted' = TRUE
             /\ D_sparse' = D_sparse
    /\ UNCHANGED << ls, allocator, m_twoPatch, m_neumannBdy, m_isogeometric, mp, mb, innerKnotMulti,
                    built, numBasisFunctions, kindOfVertex, sizePlusInt, sizePlusBdy,
                    kink, dim_K, dim_G1_Dofs, dim_G1_Bdy, D_0_sparse,
                    D_boundary_sparse, m_g1, nFinalize, calls >>

ConstructSparseG1Solution ==
    /\ built /\ ~aborted
    /\ \E a \in SolArgs :
          \/ /\ SparseLoopsEnd
             /\ ret' = Returned("sparse", a, "none")
             /\ aborted' = FALSE
          \/ /\ ~SparseReadOK
             /\ ret' = NoRet
             /\ aborted' = TRUE
    /\ FrameRead

----------------------------------------------------------------------------
(* The system from construction to finalize *)

SysBasis == [p |-> 3, mult |-> 1, n |-> 3]

\* collinear tangents at the u = 0 end, a kink at the u = 1 end
SysJacobians == { [p0_10 |-> << 1, 0 >>, p1_00 |-> << 1, 0 >>,
                   p0_11 |-> << 1, 0 >>, p1_01 |-> << 0, 1 >>] }

\* the default flags, with and without twoPatch
InitSys ==
    /\ ls = NoSearch
    /\ Unbuilt
    /\ m_twoPatch \in BOOLEAN
    /\ m_neumannBdy = FALSE
    /\ m_isogeometric = FALSE
    /\ mp \in { WithJac(TopoTwo, j) : j \in SysJacobians }
    /\ innerKnotMulti = 0
    /\ mb = MultiBases(SysBasis, SysBasis, 2, 2)

Next ==
    \/ Construct
    \/ Initialize
    \/ InitializeTwoPatch
    \/ InsertInterfaceEdge
    \/ InsertBoundaryEdge
    \/ InsertVertex
    \/ Finalize

Spec == InitSys /\ [][Next]_vars

----------------------------------------------------------------------------
(* The insertion calls on two and on four patches *)

\* cubic patches with and without boundary-edge functions in initialize()
InsertBases == { SysBasis, [p |-> 3, mult |-> 1, n |-> MaxElems + 1] }

\* a kink at the u = 0 end, collinear tangents at the u = 1 end
InsertJacobians ==
    { [p0_10 |-> << 1, 0 >>, p1_00 |-> << 0, 1 >>,
       p0_11 |-> << 1, 0 >>, p1_01 |-> << 1, 0 >>] }

InitInsert ==
    /\ ls = NoSearch
    /\ Unbuilt
    /\ m_twoPatch \in BOOLEAN
    /\ m_neumannBdy \in BOOLEAN
    /\ m_isogeometric = FALSE
    /\ innerKnotMulti = 0
    /\ \/ mp \in { WithJac(TopoTwo, j) : j \in InsertJacobians }
       \/ mp = WithJac(TopoFour, Straight)
    /\ \E b \in InsertBases : mb = MultiBases(b, b, mp.nPatches, 2)

NextInsert ==
    \/ Construct
    \/ InsertInterfaceEdge
    \/ InsertBoundaryEdge
    \/ InsertVertex

SpecInsert == InitInsert /\ [][NextInsert]_vars

----------------------------------------------------------------------------
(* The two-patch system with every combination of kinks at the two ends   *)
(* of its interface                                                        *)

\* the tangents of the second patch at the u = 0 and at the u = 1 end:
\* collinear with the first patch's or at a right angle
RerouteJacobians ==
    [p0_10 : {<< 1, 0 >>}, p1_00 : {<< 1, 0 >>, << 0, 1 >>},
     p0_11 : {<< 1, 0 >>}, p1_01 : {<< 1, 0 >>, << 0, 1 >>}]

InitReroute ==
    /\ ls = NoSearch
    /\ Unbuilt
    /\ m_twoPatch = TRUE
    /\ m_neumannBdy = FALSE
    /\ m_isogeometric = FALSE
    /\ innerKnotMulti = 0
    /\ mp \in { WithJac(TopoTwo, j) : j \in RerouteJacobians }
    /\ mb = MultiBases(SysBasis, SysBasis, 2, 2)

\* the calls that write the rows of the vertex blocks
NextReroute ==
    \/ Construct
    \/ InsertInterfaceEdge
    \/ InsertVertex
    \/ Finalize

SpecReroute == InitReroute /\ [][NextReroute]_vars

----------------------------------------------------------------------------
(* stepsize of LinpLap_example *)

maxiter == 10

\* mu = 0.0001 and sigma = 0.9, the defaults main calls stepsize with
MuDen == 10000

SigmaNum == 9

SigmaDen == 10

\* tau *= 0.8 and tau *= 1.2 on tau = TauNum / TauDen
ShrinkNum == 4

GrowNum == 6

FactorDen == 5

\* A.energy() at the trial point and (rh_new.transpose()*s_).value(), as
\* the assembler returns them
Energies == 0..2

Slopes == { -2, -1, 0 }

\* Jh_new <= Jh + tau * mu * (rh.transpose()*s_).value()
SufficientDecrease(JhNew, Jh, tn, td, rhS) ==
    (JhNew - Jh) * MuDen <= (tn * rhS) \div td

\* (rh_new.transpose()*s_).value() >= sigma * (rh.transpose()*s_).value()
Curvature(rhNewS, rhS) == SigmaDen * rhNewS >= SigmaNum * rhS

\* rh = rh_new; Jh = Jh_new; return tau
StepReturn(r) == [r EXCEPT !.pc = "returned", !.Jh = r.Jh_new, !.rhS = r.rhNewS]

InitStep ==
    /\ \E Jh \in 1..2, rhS \in { -2, -1 } :
          ls = [pc |-> "called", tauNum |-> 1, tauDen |-> 1, iter |-> 0,
                c1 |-> FALSE, c2 |-> FALSE, c1_loop |-> FALSE, c2_loop |-> FALSE,
                Jh |-> Jh, rhS |-> rhS, Jh_new |-> Jh, rhNewS |-> rhS]
    /\ Unbuilt
    /\ m_twoPatch = FALSE
    /\ m_neumannBdy = FALSE
    /\ m_isogeometric = FALSE
    /\ innerKnotMulti = 0
    /\ mp = WithJac(TopoEmpty, Straight)
    /\ mb = MultiBases(SysBasis, SysBasis, 0, 1)

FrameStep ==
    UNCHANGED << m_twoPatch, m_neumannBdy, m_isogeometric, mp, mb, innerKnotMulti,
                 built, numBasisFunctions, kindOfVertex, sizePlusInt, sizePlusBdy,
                 kink, dim_K, dim_G1_Dofs, dim_G1_Bdy, D_sparse, D_0_sparse,
                 D_boundary_sparse, m_g1, nFinalize, calls, aborted, ret, allocator >>

\* the function up to the branch: the trial point at tau = 1
StepsizeEnter ==
    /\ ls.pc = "called"
    /\ \E JhNew \in Energies, rhNewS \in Slopes :
          LET c1 == SufficientDecrease(JhNew, ls.Jh, 1, 1, ls.rhS)
              c2 == Curvature(rhNewS, ls.rhS)
              r == [ls EXCEPT !.Jh_new = JhNew, !.rhNewS = rhNewS,
                              !.c1 = c1, !.c2 = c2]
          IN  ls' = IF ~c1 THEN [r EXCEPT !.pc = "shrink"]
                    ELSE IF c1 /\ ~c2 THEN [r EXCEPT !.pc = "grow"]
                    ELSE StepReturn(r)
    /\ FrameStep

\* one pass of the first do-while: its body declares a c1 of its own, and the
\* loop condition, outside the body, reads the c1 of the function
ShrinkIteration ==
    /\ ls.pc = "shrink"
    /\ \E JhNew \in Energies, rhNewS \in Slopes :
          LET tn == ls.tauNum * ShrinkNum
              td == ls.tauDen * FactorDen
              r == [ls EXCEPT !.tauNum = tn, !.tauDen = td,
                              !.Jh_new = JhNew, !.rhNewS = rhNewS,
                              !.c1_loop = SufficientDecrease(JhNew, ls.Jh, tn, td, ls.rhS),
                              !.iter = ls.iter + 1]
          IN  ls' = IF ~r.c1 /\ r.iter < maxiter THEN r ELSE StepReturn(r)
    /\ FrameStep

\* one pass of the second do-while, with a c1 and a c2 of its own
GrowIteration ==
    /\ ls.pc = "grow"
    /\ \E JhNew \in Energies, rhNewS \in Slopes :
          LET tn == ls.tauNum * GrowNum
              td == ls.tauDen * FactorDen
              r == [ls EXCEPT !.tauNum = tn, !.tauDen = td,
                              !.Jh_new = JhNew, !.rhNewS = rhNewS,
                              !.c1_loop = SufficientDecrease(JhNew, ls.Jh, tn, td, ls.rhS),
                              !.c2_loop = Curvature(rhNewS, ls.rhS),
                              !.iter = ls.iter + 1]
          IN  ls' = IF r.c1 /\ ~r.c2 /\ r.iter < maxiter THEN r ELSE StepReturn(r)
    /\ FrameStep

NextStep ==
    \/ StepsizeEnter
    \/ ShrinkIteration
    \/ GrowIteration

SpecStep == InitStep /\ [][NextStep]_vars

----------------------------------------------------------------------------
(* The system from construction to the reconstructed solution *)

InitRead ==
    /\ ls = NoSearch
    /\ Unbuilt
    /\ m_twoPatch \in BOOLEAN
    /\ m_neumannBdy = FALSE
    /\ m_isogeometric = FALSE
    /\ mp = WithJac(TopoTwo, Straight)
    /\ innerKnotMulti = 0
    /\ mb = MultiBases(SysBasis, SysBasis, 2, 2)

\* no operation looks at what was called before it
NextRead ==
    \/ Construct
    \/ InsertInterfaceEdge
    \/ InsertBoundaryEdge
    \/ InsertVertex
    \/ Finalize
    \/ Solve
    \/ ConstructG1Solution
    \/ ConstructSparseG1Solution

SpecRead == InitRead /\ [][NextRead]_vars

\* the same operations on the system constructed with twoPatch
InitReadTwoPatch == InitRead /\ m_twoPatch

SpecReadTwoPatch == InitReadTwoPatch /\ [][NextRead]_vars

----------------------------------------------------------------------------
(* Properties of the offset tables *)

Categories == 0..6

FirstOf(k) == numBasisFunctions[k][0]

LastOf(k) == Last(numBasisFunctions[k])

\* the tables in use were allocated by initialize_twoPatch
TwoPatchTables == allocator = "initialize_twoPatch"

\* two-patch mode: constructed with the two-patch flag, which the insertion
\* calls read, and allocated by initialize_twoPatch
TwoPatchMode == m_twoPatch /\ TwoPatchTables

\* multi-patch mode: constructed without the flag and allocated by initialize
MultiPatchMode == ~m_twoPatch /\ allocator = "initialize"

TwoBasisColumns == TwoPatchTables /\ ~m_isogeometric /\ VecLen(mb) = 2

\* C1 as stated: after construction, for every consecutive pair of the seven
\* categories the last entry of category k's table equals the first entry of
\* category k+1's table.
C1_ChainSevenCategories ==
    built => \A k \in 0..5 : LastOf(k) = FirstOf(k + 1)

\* C1 amended: after construction the five row categories interface, edge,
\* vertex, boundary-edge, boundary-vertex are chained (the last entry of one
\* table is the first entry of the next, the interface table starting at 0);
\* the patch-interior table is not chained and starts at 0; the
\* patch-interior-interface-columns table starts at the last entry of the
\* patch-interior table in two-patch, non-isogeometric mode with two
\* multi-bases, and at 0 otherwise.
C1_ChainRowCategories ==
    built =>
        /\ FirstOf(0) = 0
        /\ \A k \in 0..3 : LastOf(k) = FirstOf(k + 1)
        /\ FirstOf(5) = 0
        /\ FirstOf(6) = (IF TwoBasisColumns THEN LastOf(5) ELSE 0)

\* every per-entity count of every table is non-negative
CountsNonNegative ==
    \A k \in 0..6 : \A i \in 0..(NumEntities(mp, k) - 1) :
        numBasisFunctions[k][i + 1] >= numBasisFunctions[k][i]

\* a constructed system where every row category owns rows and the
\* boundary-vertex table ends away from the start of the patch-interior table
C1_Witness ==
    /\ built
    /\ \A k \in 0..4 : LastOf(k) > FirstOf(k)
    /\ LastOf(4) # FirstOf(5)
    /\ LastOf(5) # FirstOf(6)
    /\ CountsNonNegative

\* C2: after construction every one of the seven offset tables is
\* non-decreasing, for every degree, knot multiplicity and element count.
C2_NonDecreasing ==
    built => \A k \in Categories : \A i \in 0..(NumEntities(mp, k) - 1) :
                numBasisFunctions[k][i + 1] >= numBasisFunctions[k][i]

CategoryRows(k) == FirstOf(k)..(LastOf(k) - 1)

\* C3: after construction the five row categories occupy disjoint contiguous
\* row ranges, in the order interface, edge, vertex, boundary-edge,
\* boundary-vertex; the free categories cover exactly [0, dim_G1_Dofs), the
\* fixed ones exactly [dim_G1_Dofs, dim_G1_Dofs + dim_G1_Bdy), and the
\* matrices and the boundary vector have dim_G1_Dofs + dim_G1_Bdy + dim_K rows.
C3_RowRanges ==
    built =>
        /\ \A k \in 0..3 : \A r \in CategoryRows(k) : \A q \in CategoryRows(k + 1) : r < q
        /\ CategoryRows(0) \cup CategoryRows(1) \cup CategoryRows(2)
              = 0..(dim_G1_Dofs - 1)
        /\ CategoryRows(3) \cup CategoryRows(4)
              = dim_G1_Dofs..(dim_G1_Dofs + dim_G1_Bdy - 1)
        /\ DOMAIN m_g1 = 0..(dim_G1_Dofs + dim_G1_Bdy + dim_K - 1)

SumCounts(k) == CumSum([i \in 0..(NumEntities(mp, k) - 1) |-> TableCount(k, i)],
                       NumEntities(mp, k))

\* C4 as stated: for every category the sum of the per-entity counts equals
\* the final value of the category's offset table.
C4_SumIsFinalValue ==
    built => \A k \in Categories : SumCounts(k) = LastOf(k)

\* the value a category's table starts from
BaseOf(k) ==
    IF k \in 1..4 THEN LastOf(k - 1)
    ELSE IF k = 6 /\ TwoBasisColumns THEN LastOf(5)
    ELSE 0

\* C4 amended: the sum of the per-entity counts of a category equals the final
\* value of its offset table minus the value the table starts from: 0 for the
\* interface and patch-interior categories, the final value of the preceding
\* row category for edge, vertex, boundary-edge and boundary-vertex, and for
\* the patch-interior-interface-columns category the final value of the
\* patch-interior table in two-patch, non-isogeometric mode with two
\* multi-bases, 0 otherwise.
C4_SumIsFinalMinusBase ==
    built => \A k \in Categories : SumCounts(k) = LastOf(k) - BaseOf(k)

\* a constructed system whose shifted categories own rows
C4_Witness ==
    /\ built
    /\ \A k \in 1..4 : SumCounts(k) > 0 /\ BaseOf(k) > 0
    /\ TwoBasisColumns
    /\ CountsNonNegative

\* C5: after construction, in every flag combination, dim_K is the size of the
\* concatenated per-patch coefficient space, so that the column range of every
\* patch in the two column tables lies inside [0, dim_K).
C5_ColumnRangesInsideDimK ==
    built => \A k \in 5..6 : \A p \in 0..(mp.nPatches - 1) :
                /\ 0 <= numBasisFunctions[k][p]
                /\ numBasisFunctions[k][p] <= numBasisFunctions[k][p + 1]
                /\ numBasisFunctions[k][p + 1] <= dim_K
                /\ dim_K >= LastOf(5)

----------------------------------------------------------------------------
(* Properties of the insertion calls and of finalize *)

\* C6: an insertion or a second finalize after finalize has run is rejected
\* and changes nothing: from a state where finalize has run, no step changes
\* D, D_0, D_boundary or the boundary value vector.
C6_NothingChangesAfterFinalize ==
    [][nFinalize >= 1 =>
          UNCHANGED << D_sparse, D_0_sparse, D_boundary_sparse, m_g1 >>]_vars

KindRank(kind) == IF kind = "interface" THEN 0 ELSE IF kind = "boundary" THEN 1 ELSE 2

CallBefore(a, b) ==
    \/ KindRank(a.kind) < KindRank(b.kind)
    \/ KindRank(a.kind) = KindRank(b.kind) /\ a.id < b.id
    \/ KindRank(a.kind) = KindRank(b.kind) /\ a.id = b.id /\ a.bfID < b.bfID

FirstCall(S) == CHOOSE c \in S : \A d \in S \ {c} : CallBefore(c, d)

\* the matrix left by the calls S made in the order interface, boundary side,
\* vertex, each by entity and ordinal
RECURSIVE Replay(_, _)
Replay(M, S) ==
    IF S = {} THEN M
    ELSE Replay(MatInsertAll(M, CallWrites(FirstCall(S)), 1), S \ {FirstCall(S)})

\* C7: whatever the order of the insertion calls made so far, D is the matrix
\* the same calls leave when made in one fixed order, and no cell of D has
\* been written more than once.
C7_OrderIrrelevantWrittenOnce ==
    (built /\ ~aborted /\ nFinalize = 0) =>
        /\ D_sparse = Replay(EmptyMat, calls)
        /\ \A cell \in DOMAIN D_sparse : Len(D_sparse[cell]) = 1

CallPiece(c) ==
    IF c.kind = "interface" THEN InterfacePiece(c.id, c.pat)
    ELSE IF c.kind = "boundary" THEN BoundaryPiece(c.id, c.pat)
    ELSE VertexPiece(c.id, c.pat)

SeqRange(q) == { q[k] : k \in 1..Len(q) }

\* the global rows of the basis function of a call
CallRows(c) ==
    IF c.kind = "interface" THEN SeqRange(InterfaceRows(c.id, c.bfID))
    ELSE IF c.kind = "boundary" THEN { BoundaryRow(c.id, c.bfID) }
    ELSE { VertexRow(c.id, TableCount(2, c.id), c.bfID) }

\* the patch a slot of the piece of a call belongs to
CallPatch(c, np) ==
    IF c.kind = "interface" THEN InterfacePatch(mp.interfaces[c.id], np)
    ELSE IF c.kind = "boundary" THEN mp.boundaries[c.id].patch
    ELSE PatchIndex(c.id)[np]

\* patch_column_offset + local_index
CallColumn(c, np, j) ==
    numBasisFunctions[IF c.kind = "interface" THEN 6 ELSE 5][CallPatch(c, np)] + j

HoldsValue(r, col, v) ==
    /\ << r, col >> \in DOMAIN D_sparse
    /\ v \in SeqRange(D_sparse[<< r, col >>])

\* C8: every coefficient of an inserted piece whose square exceeds 1e-25 (10
\* units) is in D at (row, patch_column_offset + local_index) with its value;
\* in particular a coefficient of squared magnitude 1e-24 is.
C8_AboveToleranceInD ==
    (built /\ ~aborted) =>
        \A c \in calls : \A np \in DOMAIN CallPiece(c) :
            \A j \in DOMAIN CallPiece(c)[np] : \A r \in CallRows(c) :
                CallPiece(c)[np][j] * CallPiece(c)[np][j] > 10
                    => HoldsValue(r, CallColumn(c, np, j), CallPiece(c)[np][j])

\* C9: D never holds an entry whose squared magnitude is at most 1e-25 (10
\* units): such coefficients of a piece are skipped by the insertion calls.
C9_NoEntryAtOrBelowTolerance ==
    \A cell \in DOMAIN D_sparse : \A k \in 1..Len(D_sparse[cell]) :
        D_sparse[cell][k] * D_sparse[cell][k] > 10

\* an insertion call has stored a coefficient of its piece and has skipped
\* one whose square is positive and at most 1e-25
C9_Witness ==
    /\ ~aborted
    /\ dim_K > 0
    /\ \A cell \in DOMAIN D_sparse : InRange(cell[1], cell[2])
    /\ \E c \in calls : \E np \in DOMAIN CallPiece(c) :
         \E j \in DOMAIN CallPiece(c)[np], i \in DOMAIN CallPiece(c)[np] :
           \E r \in CallRows(c) :
             /\ CallPiece(c)[np][j] = 3
             /\ << r, CallColumn(c, np, j) >> \notin DOMAIN D_sparse
             /\ HoldsValue(r, CallColumn(c, np, i), CallPiece(c)[np][i])

ColumnRange(p) == numBasisFunctions[6][p]..(numBasisFunctions[6][p + 1] - 1)

\* C10: on a two-patch, one-interface topology every entry of D in an
\* interface-category row has its column inside the column range of one of
\* the two interface patches, and every coefficient an interface insertion
\* stores for a patch lies inside that patch's own column range.
C10_InterfaceRowsInPatchColumns ==
    (built /\ ~aborted /\ mp.nPatches = 2 /\ NI(mp) = 1) =>
        /\ \A cell \in DOMAIN D_sparse :
              cell[1] \in CategoryRows(0) =>
                 \E np \in 0..1 :
                    cell[2] \in ColumnRange(InterfacePatch(mp.interfaces[0], np))
        /\ \A c \in calls : c.kind = "interface" =>
              \A np \in 0..1 : \A j \in DOMAIN CallPiece(c)[np] :
                 Stored(CallPiece(c)[np][j])
                    => CallColumn(c, np, j) \in ColumnRange(CallPatch(c, np))

----------------------------------------------------------------------------
(* Properties of finalize *)

G1Rows == dim_G1_Dofs + dim_G1_Bdy

\* rows of the interface, edge and vertex categories and of the patch
\* interiors
FreeRow(r) ==
    \/ r \in CategoryRows(0) \cup CategoryRows(1) \cup CategoryRows(2)
    \/ r - G1Rows \in 0..(LastOf(5) - 1)

\* rows of the boundary-edge and boundary-vertex categories
FixedRow(r) == r \in CategoryRows(3) \cup CategoryRows(4)

SplitByCategory ==
    \A cell \in DOMAIN D_sparse \cup DOMAIN D_0_sparse \cup DOMAIN D_boundary_sparse :
        /\ Val(D_0_sparse, cell)
              = (IF FreeRow(cell[1]) THEN Val(D_sparse, cell) ELSE 0)
        /\ Val(D_boundary_sparse, cell)
              = (IF FixedRow(cell[1]) THEN Val(D_sparse, cell) ELSE 0)
        /\ Val(D_0_sparse, cell) + Val(D_boundary_sparse, cell) = Val(D_sparse, cell)

\* C11: when finalize returns, every row of D_0 equals the row of D if it
\* is a free row (interface, edge, vertex, patch interior) and is zero
\* otherwise, every row of D_boundary equals the row of D if it is a fixed row
\* (boundary edge, boundary vertex) and is zero otherwise, and
\* D_0 + D_boundary = D.
C11_SplitOnFinalize ==
    [][(nFinalize' = nFinalize + 1 /\ ~aborted') => SplitByCategory']_vars

\* finalize has split a D that holds an inserted coefficient in a fixed row
\* and identity entries in the patch-interior rows
C11_Witness ==
    /\ nFinalize = 1 /\ ~aborted /\ dim_K > 0
    /\ SplitByCategory
    /\ \E cell \in DOMAIN D_boundary_sparse : FixedRow(cell[1])
    /\ \E cell \in DOMAIN D_0_sparse : cell[1] >= G1Rows
    /\ \A cell \in DOMAIN D_sparse : InRange(cell[1], cell[2])

\* number of entries 1 in the patch-interior rows of D
UnitEntries ==
    Cardinality({ e \in { << cell, k >> : cell \in DOMAIN D_sparse, k \in 1..2 } :
                    /\ e[1][1] >= G1Rows
                    /\ e[2] <= Len(D_sparse[e[1]])
                    /\ D_sparse[e[1]][e[2]] = One })

\* C12 as stated: after exactly one finalize the number of unit entries in
\* the patch-interior rows of D equals dim_K.
C12_IdentityBlockIsDimK ==
    (nFinalize = 1 /\ ~aborted) => UnitEntries = dim_K

StrictInteriorCount ==
    CumSum([np \in 0..(mp.nPatches - 1) |->
               Max0(DimU(np) - 4) * Max0(DimV(np) - 4)], mp.nPatches)

\* C12 amended: after exactly one finalize the number of unit entries in the
\* patch-interior rows of D is the number of strictly interior coefficients,
\* (dim_u - 4) * (dim_v - 4) per patch.
C12_IdentityBlockStrictInterior ==
    (nFinalize = 1 /\ ~aborted) => UnitEntries = StrictInteriorCount

\* one finalize after an insertion, on patches that have a margin
C12_Witness ==
    /\ nFinalize = 1 /\ ~aborted /\ calls # {}
    /\ dim_K > StrictInteriorCount
    /\ UnitEntries = StrictInteriorCount /\ UnitEntries > 0
    /\ \A cell \in DOMAIN D_sparse : InRange(cell[1], cell[2])

\* C13: after finalize(g) the boundary value vector holds g[i] at row
\* dim_G1_Dofs + i for every i in [0, dim_G1_Bdy) and 0 at every other row.
C13_BoundaryValuesStored ==
    (nFinalize >= 1 /\ ~aborted) =>
        \E g \in GVectors(dim_G1_Bdy) :
            \A r \in DOMAIN m_g1 :
                m_g1[r] = (IF r >= dim_G1_Dofs /\ r < dim_G1_Dofs + dim_G1_Bdy
                           THEN g[r - dim_G1_Dofs] ELSE 0)

\* finalize has stored distinct values below a block of free rows
C13_Witness ==
    /\ nFinalize = 1 /\ ~aborted
    /\ dim_G1_Dofs > 0 /\ dim_G1_Bdy > 1 /\ dim_K > 0
    /\ m_g1[dim_G1_Dofs] = 1 /\ m_g1[dim_G1_Dofs + 1] = 2
    /\ m_g1[0] = 0 /\ m_g1[dim_G1_Dofs + dim_G1_Bdy] = 0

----------------------------------------------------------------------------
(* Properties of the constructor *)

\* C17: a system on an empty topology is not constructed: the constructor
\* fails before any table or matrix is built.
C17_EmptyTopologyRejected == mp.nPatches = 0 => ~built

RawCount(p, r, n) == 2 * (p - r - 1) * (n - 1) + 2 * p + 1

\* the raw count of interface i from the degree, regularity and element
\* count the initialization in use computes
RawInterfaceCount(i) ==
    IF TwoPatchTables
    THEN RawCount(MP2(mp, mb, i), MR2(mp, mb, i), MN2(mp, mb, i))
    ELSE RawCount(BasisEdgeI(mp, mb, i).p, 1, BasisEdgeI(mp, mb, i).n)

KinkCount == Cardinality({ e \in DOMAIN kink : kink[e] })

FixedExclusion == IF m_neumannBdy THEN 8 ELSE 4

\* C18 as stated: in either initialization the count of an interface is the
\* raw count minus 4 (8 in Neumann mode) minus 2 for each detected kink.
C18_CountTwoPerKink ==
    built => \A i \in 0..(NI(mp) - 1) :
        TableCount(0, i) = RawInterfaceCount(i) - FixedExclusion - 2 * KinkCount

\* C18 amended: in two-patch mode the count is the raw count plus twice the
\* inner-knot supplement, minus 4 (8 in Neumann mode), minus 1 for each
\* detected kink; in multi-patch mode it is the raw count minus 10 whatever
\* the Neumann flag, and no kink is looked for.
C18_CountOnePerKink ==
    built => \A i \in 0..(NI(mp) - 1) :
        TableCount(0, i) =
            (IF TwoPatchTables
             THEN RawInterfaceCount(i) + 2 * NumInnerKnot(mp, mb, innerKnotMulti, i)
                    - FixedExclusion - KinkCount
             ELSE RawInterfaceCount(i) - 10)

\* a two-patch system with one kinked end and the inner-knot supplement
C18_Witness ==
    /\ built /\ TwoPatchTables /\ NI(mp) = 1
    /\ KinkCount = 1
    /\ NumInnerKnot(mp, mb, innerKnotMulti, 0) = 3
    /\ TableCount(0, 0) > 0
    /\ CountsNonNegative

\* the InterfaceBoundary vertex at the u = 0 and at the u = 1 end
EndVertex(e) == IF e = 0 THEN 1 ELSE 3

EndDet(e) ==
    IF e = 0 THEN Det2(mp.jac.p0_10, mp.jac.p1_00)
    ELSE Det2(mp.jac.p0_11, mp.jac.p1_01)

NoKink == [e \in 0..1 |-> FALSE]

\* C19: in two-patch mode, for either Neumann flag: an end with collinear
\* tangents is not kinked and without kink nothing more is taken from the
\* interface count; an end with non-collinear tangents is kinked and the
\* boundary-vertex count of its InterfaceBoundary vertex is exactly 1 larger
\* than without the kink.
C19_KinkAddsOneAtVertex ==
    (built /\ TwoPatchTables /\ NI(mp) = 1) =>
        /\ \A e \in 0..1 :
              /\ kink[e] = (EndDet(e) # 0)
              /\ kindOfVertex[EndVertex(e)] = 1
              /\ TableCount(4, EndVertex(e))
                    = BoundaryVertexCount2(m_neumannBdy, mp, NoKink, EndVertex(e))
                        + (IF kink[e] THEN 1 ELSE 0)
        /\ KinkCount = 0 =>
              TableCount(0, 0) = RawInterfaceCount(0)
                  + 2 * NumInnerKnot(mp, mb, innerKnotMulti, 0) - FixedExclusion

----------------------------------------------------------------------------
(* Properties of the routing of interface functions *)

\* the ordinals insertInterfaceEdge takes out of the interface block
Rerouted(bfID) ==
    \/ bfID \in { 0, sizePlusInt[0] - 1, sizePlusInt[0], 2 * sizePlusInt[0] - 2 }
    \/ bfID = 1 /\ kink[0]
    \/ bfID = sizePlusInt[0] - 2 /\ kink[1]

\* the end of the interface a rerouted ordinal belongs to
ReroutedEnd(bfID) == IF bfID \in { 0, 1, sizePlusInt[0] } THEN 0 ELSE 1

VertexBlock(v) == numBasisFunctions[4][v]..(numBasisFunctions[4][v + 1] - 1)

\* vertex v joins the two interface patches at end e of the interface
\* (corners 1, 2 lie at parameter 0 and corners 3, 4 at parameter 1)
AtInterfaceEnd(v, e) ==
    /\ { mp.vertices[v][j].patch : j \in DOMAIN mp.vertices[v] }
          = { mp.interfaces[0].first.patch, mp.interfaces[0].second.patch }
    /\ \A j \in DOMAIN mp.vertices[v] :
          mp.vertices[v][j].corner \in (IF e = 0 THEN {1, 2} ELSE {3, 4})

\* C20: in two-patch, non-Neumann mode the coefficients of a rerouted
\* interface function (ordinals 0, plusInt-1, plusInt, 2*plusInt-2, ordinal 1
\* with a kink at u = 0, ordinal plusInt-2 with a kink at u = 1) are written
\* to a row inside the boundary-vertex block of the InterfaceBoundary vertex
\* at that end and to no interface row.
C20_ReroutedToVertexBlock ==
    (built /\ ~aborted /\ TwoPatchMode /\ ~m_neumannBdy) =>
        \A c \in calls : (c.kind = "interface" /\ Rerouted(c.bfID)) =>
            LET v == EndVertex(ReroutedEnd(c.bfID))
            IN  /\ kindOfVertex[v] = 1
                /\ AtInterfaceEnd(v, ReroutedEnd(c.bfID))
                /\ CallRows(c) # {}
                /\ \A r \in CallRows(c) :
                      /\ r \in VertexBlock(v)
                      /\ r \notin CategoryRows(0)
                      /\ \A np \in 0..1 : \A j \in DOMAIN CallPiece(c)[np] :
                            Stored(CallPiece(c)[np][j]) =>
                               HoldsValue(r, CallColumn(c, np, j), CallPiece(c)[np][j])
                /\ \A cell \in DOMAIN D_sparse :
                      nFinalize = 0 => \E d \in calls : cell[1] \in CallRows(d)

\* on a system kinked at both ends, the second plus function and the
\* function next to the last plus function have both been inserted, the
\* first into the third row of the block of vertex 1, the second into the
\* third row of the block of vertex 3
C20_Witness ==
    /\ built /\ ~aborted /\ TwoPatchMode /\ ~m_neumannBdy
    /\ kink[0] /\ kink[1]
    /\ \E c \in calls :
          /\ c.kind = "interface" /\ c.bfID = 1
          /\ CallRows(c) = { numBasisFunctions[4][1] + 2 }
          /\ \E cell \in DOMAIN D_sparse : cell[1] = numBasisFunctions[4][1] + 2
    /\ \E c \in calls :
          /\ c.kind = "interface" /\ c.bfID = sizePlusInt[0] - 2
          /\ CallRows(c) = { numBasisFunctions[4][3] + 2 }
          /\ \E cell \in DOMAIN D_sparse : cell[1] = numBasisFunctions[4][3] + 2

----------------------------------------------------------------------------
(* Properties of solve and of the reconstructions *)

\* the members a reader of the system relies on
Structure ==
    << D_sparse, D_0_sparse, D_boundary_sparse, m_g1, numBasisFunctions,
       kindOfVertex, sizePlusInt, sizePlusBdy >>

\* C14: after finalize, every solve, constructG1Solution and
\* constructSparseG1Solution call, whatever came before it, leaves D, D_0,
\* D_boundary, the stored g, the offset tables, kindOfVertex and the sizePlus
\* arrays unchanged; the results are functions of these members and of the
\* arguments, so a repeated call returns the same result.
C14_ReadsLeaveSystemUnchanged ==
    [][(nFinalize >= 1 /\ ret' # NoRet) => UNCHANGED Structure]_vars

\* a reconstruction and a solve have returned from a finalized system that
\* holds inserted pieces
C14_Witness ==
    /\ nFinalize >= 1 /\ ~aborted
    /\ ret.op = "sparse" /\ ret.arg = 1
    /\ calls # {}
    /\ dim_K > 0
    /\ \E cell \in DOMAIN D_sparse : cell[1] < G1Rows

\* a piece as it is kept by the insertion calls: pruned coefficients are zero
Pruned(piece) == [j \in DOMAIN piece |-> IF Stored(piece[j]) THEN piece[j] ELSE 0]

\* row r is reconstructed with coefficient 1: x is 1 on every free row, and
\* the stored g is 1 on the row if it is a fixed row
CoefficientOne(r) ==
    (r >= dim_G1_Dofs /\ r < dim_G1_Dofs + dim_G1_Bdy) => m_g1[r] = 1

\* constructG1Solution hands back the piece of call c for its patch np
RoundTrip(c, np) ==
    \A r \in CallRows(c) :
        \E s \in SlotSet :
            /\ s.row = r
            /\ s.patch = CallPatch(c, np)
            /\ SlotOK(s)
            /\ SlotPiece(s, SolVector(1)) = Pruned(CallPiece(c)[np])

\* C15: after inserting pieces and finalizing, constructG1Solution with
\* coefficient 1 (x = 1 on free rows, g = 1 on fixed rows) returns, for every
\* inserted function whose rows have coefficient 1 and every contributing
\* patch, a piece equal to the inserted piece up to pruned entries, in every
\* mode combination.
C15_RoundTrip ==
    (nFinalize >= 1 /\ ~aborted /\ ret.op = "g1" /\ ret.arg = 1) =>
        \A c \in calls : \A np \in DOMAIN CallPiece(c) :
            (\A r \in CallRows(c) : CoefficientOne(r)) => RoundTrip(c, np)

\* C16: when the solver does not converge, solve raises an error instead of
\* returning the iterate.
C16_NonConvergenceRaised ==
    (ret.op = "solve" /\ ret.info # "Success") => ret.raised

----------------------------------------------------------------------------
(* Properties of the identity block *)

\* the columns patchOffset[np] + j * dim_u + i of the strictly interior
\* coefficients of patch np
InteriorColumns(np) ==
    { numBasisFunctions[5][np] + j * DimU(np) + i :
         j \in 2..(DimV(np) - 3), i \in 2..(DimU(np) - 3) }

InteriorCells ==
    UNION { { << G1Rows + c, c >> : c \in InteriorColumns(np) } :
               np \in 0..(mp.nPatches - 1) }

EntriesAt(M, cell) == IF cell \in DOMAIN M THEN M[cell] ELSE << >>

\* a finalize that ran to its end has appended the value 1 to every cell of
\* cells and nothing to any other cell
AppendedOneAt(cells) ==
    \A cell \in DOMAIN D_sparse' \cup cells :
        EntriesAt(D_sparse', cell) =
            EntriesAt(D_sparse, cell) \o (IF cell \in cells THEN << One >> ELSE << >>)

FinalizeStep == nFinalize' = nFinalize + 1 /\ ~aborted'

\* C21: finalize writes the value 1 into D exactly at
\* (dim_G1_Dofs + dim_G1_Bdy + c, c) for every strictly interior coefficient c
\* of every patch and writes no other entry, and every such row and column
\* lies inside the dimensions of D.
C21_IdentityCellsInsideD ==
    [][FinalizeStep =>
          /\ AppendedOneAt(InteriorCells)
          /\ \A cell \in InteriorCells : InRange(cell[1], cell[2])]_vars

----------------------------------------------------------------------------
(* Properties of the walk of constructG1Solution *)

\* the rows of entity id in the table of category k
EntityRows(k, id) == numBasisFunctions[k][id]..(numBasisFunctions[k][id + 1] - 1)

Visit(kind, id, c, row, patch) ==
    [kind |-> kind, id |-> id, c |-> c, row |-> row, patch |-> patch]

\* every DOF row of every entity block with every patch contributing to the
\* entity: the two sides of an interface, the patch of a boundary side, the
\* patch of every corner of a vertex
Visits ==
    UNION { { Visit(0, i, np, r, InterfacePatch(mp.interfaces[i], np)) :
                 np \in 0..1, r \in EntityRows(0, i) } : i \in DOMAIN mp.interfaces }
    \cup
    UNION { { Visit(1, b, 0, r, mp.boundaries[b].patch) :
                 r \in EntityRows(3, b) \cup EntityRows(1, b) } : b \in DOMAIN mp.boundaries }
    \cup
    UNION { { Visit(2, v, c, r, mp.vertices[v][c].patch) :
                 c \in DOMAIN mp.vertices[v],
                 r \in EntityRows(4, v) \cup EntityRows(2, v) } : v \in DOMAIN mp.vertices }

\* 0 for a row of an interface, 1 for a row of a boundary side, 2 for a row of
\* a vertex
WalkKind(r) ==
    IF r \in CategoryRows(0) THEN 0
    ELSE IF r \in CategoryRows(3) \cup CategoryRows(1) THEN 1
    ELSE 2

\* the slice of slot s is the column range of its patch in the patch-interior
\* table or in the patch-interior-interface-columns table
PatchSlice(s) ==
    \E t \in 5..6 :
        /\ SlotColumn(s) = numBasisFunctions[t][s.patch]
        /\ SlotColumn(s) + TensorSize(mb[s.bas][s.patch]) = numBasisFunctions[t][s.patch + 1]

\* the piece of slot s is the slice of its row scaled by x for a free row and
\* by g for a fixed row
ScaledByCategory(s, sol) ==
    SlotPiece(s, sol) =
        Scale(BlockRow(s.row, SlotColumn(s), TensorSize(mb[s.bas][s.patch])),
              IF FixedRow(s.row) THEN m_g1[s.row] ELSE sol[s.row])

\* C22: constructG1Solution walks the interfaces, then the boundary sides,
\* then the vertices, and emits exactly one piece for every DOF row of every
\* entity block and every patch contributing to the entity; the piece is the
\* column slice of that patch of the row of D, scaled by x[row] on a free row
\* (interface, edge, vertex) and by g[row] on a fixed row (boundary-edge,
\* boundary-vertex).
C22_WalkEmitsScaledSlices ==
    (ret.op = "g1" /\ ~aborted) =>
        LET q == G1Slots
        IN  /\ Len(q) = Cardinality(Visits)
            /\ \A v \in Visits :
                  Cardinality({ k \in 1..Len(q) : q[k].row = v.row /\ q[k].patch = v.patch })
                     = Cardinality({ w \in Visits : w.row = v.row /\ w.patch = v.patch })
            /\ \A k \in 1..Len(q), l \in 1..Len(q) :
                  k < l => WalkKind(q[k].row) <= WalkKind(q[l].row)
            /\ \A k \in 1..Len(q) :
                  /\ SlotOK(q[k])
                  /\ PatchSlice(q[k])
                  /\ ScaledByCategory(q[k], SolVector(ret.arg))


----------------------------------------------------------------------------
(* Properties of the interface parameters *)

\* the degree, regularity and element count the allocator puts into the
\* count of interface i
UsedMP(i) == IF TwoPatchTables THEN MP2(mp, mb, i) ELSE BasisEdgeI(mp, mb, i).p

UsedMR(i) == IF TwoPatchTables THEN MR2(mp, mb, i) ELSE 1

UsedMN(i) == IF TwoPatchTables THEN MN2(mp, mb, i) ELSE BasisEdgeI(mp, mb, i).n

\* multiplicity of the first knot after the leading end knots
InnerMult(be) == MultiplicityIndex(be, be.p + 1)

LowerDegree(i) == Min2(Basis1(mp, mb, i).p, Basis2(mp, mb, i).p)

SmallerCount(i) == Min2(Basis1(mp, mb, i).n, Basis2(mp, mb, i).n)

TighterRegularity(i) ==
    Min2(Min2(LowerDegree(i) - InnerMult(Basis1(mp, mb, i)) - 1,
              LowerDegree(i) - InnerMult(Basis2(mp, mb, i)) - 1),
         LowerDegree(i) - 2)

\* C23: for each interface the allocator uses the lower of the two sides'
\* degrees, the smaller of the two sides' element counts, and the
\* regularity min(m_p - knot_multiplicity - 1, m_p - 2), the tighter of the
\* two sides' regularities
C23_InterfaceParameters ==
    built => \A i \in 0..(VecLen(mp.interfaces) - 1) :
        /\ UsedMP(i) = LowerDegree(i)
        /\ UsedMN(i) = SmallerCount(i)
        /\ UsedMR(i) = TighterRegularity(i)


----------------------------------------------------------------------------
(* Properties of the vertices *)

Valence(i) == VecLen(mp.vertices[i])

VertexIds == 0..(VecLen(mp.vertices) - 1)

\* C24: every vertex has exactly one kind: boundary (-1) iff its valence is
\* 1, interior (0) iff its valence is above 1 and equals the number of
\* interfaces of the topology rebuilt from its incident patches,
\* interface-boundary (1) otherwise, in both initialization modes
C24_VertexClassification ==
    built => /\ VecLen(kindOfVertex) = VecLen(mp.vertices)
             /\ \A i \in VertexIds :
                  /\ kindOfVertex[i] \in { -1, 0, 1 }
                  /\ kindOfVertex[i] = -1 <=> Valence(i) = 1
                  /\ kindOfVertex[i] = 0 <=>
                        (Valence(i) > 1 /\ Valence(i) = SubInterfaces(mp, i))
                  /\ kindOfVertex[i] = 1 <=>
                        (Valence(i) # 1 /\ Valence(i) # SubInterfaces(mp, i))

\* a constructed system with a boundary, an interior and an
\* interface-boundary vertex
C24_Witness ==
    /\ built
    /\ \E i, j, k \in VertexIds :
          kindOfVertex[i] = -1 /\ kindOfVertex[j] = 0 /\ kindOfVertex[k] = 1

\* the sizes of a vertex's blocks in categories 2 and 4
VertexFunctions(i) == numBasisFunctions[2][i + 1] - numBasisFunctions[2][i]

BoundaryVertexFunctions(i) == numBasisFunctions[4][i + 1] - numBasisFunctions[4][i]

\* C25 as stated: the two counts of a vertex depend only on its kind and the
\* Neumann mode, and every nonzero count is one of 1, 3, 4, 6, 8
C25_CountsByKindAndNeumann ==
    built => /\ \A i, j \in VertexIds :
                  kindOfVertex[i] = kindOfVertex[j] =>
                     /\ VertexFunctions(i) = VertexFunctions(j)
                     /\ BoundaryVertexFunctions(i) = BoundaryVertexFunctions(j)
             /\ \A i \in VertexIds :
                  /\ VertexFunctions(i) \in { 0, 1, 3, 4, 6, 8 }
                  /\ BoundaryVertexFunctions(i) \in { 0, 1, 3, 4, 6, 8 }

\* the kink flag read for vertex i by initialize_twoPatch
KinkAt(i) == kink[IF i = 1 THEN 0 ELSE 1]

\* C25: the vertex count is, by initialization mode, kind and Neumann mode,
\* two-patch 1 for a boundary vertex without Neumann and 0 otherwise,
\* multi-patch 1, 6, 3 for a boundary, interior, interface-boundary vertex;
\* the boundary-vertex count is two-patch 3 (4 with Neumann) for a boundary
\* vertex, 0 for an interior one, 4 with Neumann and 2 plus one per kink at
\* its end without for an interface-boundary one, multi-patch 0 for an
\* interior vertex and 6 otherwise; every nonzero count is one of 1, 2, 3,
\* 4, 6
C25_CountsByModeKindNeumannKink ==
    built => \A i \in VertexIds :
        /\ VertexFunctions(i) =
              (IF TwoPatchTables
               THEN (IF kindOfVertex[i] = -1 /\ ~m_neumannBdy THEN 1 ELSE 0)
               ELSE (IF kindOfVertex[i] = -1 THEN 1
                     ELSE IF kindOfVertex[i] = 0 THEN 6 ELSE 3))
        /\ BoundaryVertexFunctions(i) =
              (IF kindOfVertex[i] = 0 THEN 0
               ELSE IF ~TwoPatchTables THEN 6
               ELSE IF m_neumannBdy THEN 4
               ELSE IF kindOfVertex[i] = -1 THEN 3
               ELSE IF KinkAt(i) THEN 3 ELSE 2)
        /\ VertexFunctions(i) \in { 0, 1, 2, 3, 4, 6 }
        /\ BoundaryVertexFunctions(i) \in { 0, 1, 2, 3, 4, 6 }

\* a two-patch system without Neumann mode, kinked at one end only: one
\* interface-boundary vertex has 3 boundary-vertex functions, the other 2
C25_Witness ==
    /\ built /\ TwoPatchTables /\ ~m_neumannBdy
    /\ \E i, j \in VertexIds :
          /\ kindOfVertex[i] = 1 /\ kindOfVertex[j] = 1
          /\ BoundaryVertexFunctions(i) = 3
          /\ BoundaryVertexFunctions(j) = 2


----------------------------------------------------------------------------
(* Properties of the interface rows *)

NonRerouted(iID) == { b \in InterfaceOrdinals(iID) : ~Rerouted(b) }

InterfaceBlock(iID) ==
    numBasisFunctions[0][iID]..(numBasisFunctions[0][iID + 1] - 1)

OwnRow(iID, b) == InterfaceRows(iID, b)[1]

\* C26: in two-patch, non-Neumann mode, for every kink combination, the
\* ordinals in [0, 2*sizePlusInt-2] that are not rerouted are mapped one to
\* one and onto the interface's own row block, so the block size of the
\* allocator equals the number of non-rerouted functions
C26_NonReroutedOntoBlock ==
    (built /\ TwoPatchMode /\ ~m_neumannBdy) =>
        \A iID \in 0..(VecLen(mp.interfaces) - 1) :
            /\ \A b \in NonRerouted(iID) :
                  /\ Len(InterfaceRows(iID, b)) = 1
                  /\ OwnRow(iID, b) \in InterfaceBlock(iID)
            /\ \A b, c \in NonRerouted(iID) :
                  OwnRow(iID, b) = OwnRow(iID, c) => b = c
            /\ { OwnRow(iID, b) : b \in NonRerouted(iID) } = InterfaceBlock(iID)
            /\ Cardinality(NonRerouted(iID))
                  = numBasisFunctions[0][iID + 1] - numBasisFunctions[0][iID]


----------------------------------------------------------------------------
(* Properties of the cells written *)

\* C27: in every flag combination every entry written to D by
\* insertInterfaceEdge, insertBoundaryEdge, insertVertex (ordinal inside the
\* entity's allotted range, piece sized to the patch basis) and by finalize
\* has its row in [0, dim_G1_Dofs + dim_G1_Bdy + dim_K) and its column in
\* [0, dim_K)
C27_WritesInsideD ==
    built => \A cell \in DOMAIN D_sparse :
        /\ 0 <= cell[1] /\ cell[1] < dim_G1_Dofs + dim_G1_Bdy + dim_K
        /\ 0 <= cell[2] /\ cell[2] < dim_K


----------------------------------------------------------------------------
(* Properties of the rows of insertBoundaryEdge and insertVertex *)

\* the rows of entity i in category k
Block(k, i) == numBasisFunctions[k][i]..(numBasisFunctions[k][i + 1] - 1)

\* the ordinal at which insertBoundaryEdge changes from the boundary-edge to
\* the edge category; in Neumann mode every ordinal is a boundary-edge one
SplitPoint(bID) ==
    IF m_twoPatch /\ ~m_neumannBdy THEN sizePlusBdy[bID]
    ELSE IF ~m_neumannBdy THEN sizePlusBdy[bID] - 6
    ELSE TableCount(3, bID) + TableCount(1, bID)

BoundaryTarget(bID, bfID) ==
    IF bfID < SplitPoint(bID) THEN Block(3, bID) ELSE Block(1, bID)

\* the only call made so far
OnlyCall(c) == calls = {c} /\ nFinalize = 0 /\ ~aborted

\* C28: for every boundary side bID and every ordinal bfID in [0,
\* boundary-edge count + edge count of bID), insertBoundaryEdge writes a row
\* of bID's own boundary-edge block when bfID is below the split point and of
\* bID's own edge block otherwise, in two-patch, multi-patch and Neumann mode;
\* for these calls sizePlusBdy[bID] - 6, the multi-patch split point, does
\* not wrap around
C28_BoundaryRowInOwnBlock ==
    (built /\ (TwoPatchMode \/ MultiPatchMode)) =>
        /\ \A bID \in DOMAIN mp.boundaries : \A bfID \in BoundaryOrdinals(bID) :
              /\ BoundaryRow(bID, bfID) \in BoundaryTarget(bID, bfID)
              /\ (~m_twoPatch /\ ~m_neumannBdy) => sizePlusBdy[bID] - 6 >= 0
        /\ \A c \in calls : (c.kind = "boundary" /\ OnlyCall(c)) =>
              \A cell \in DOMAIN D_sparse :
                  cell[1] \in BoundaryTarget(c.id, c.bfID)

\* a multi-patch system without Neumann mode holds a piece in a
\* boundary-edge row of a side that also has edge rows
C28_Witness ==
    /\ built /\ MultiPatchMode /\ ~m_neumannBdy
    /\ \E c \in calls :
          /\ c.kind = "boundary" /\ OnlyCall(c)
          /\ c.bfID < SplitPoint(c.id)
          /\ TableCount(1, c.id) > 0
          /\ \E cell \in DOMAIN D_sparse : cell[1] \in Block(3, c.id)

VertexTarget(vID, bfID) ==
    IF bfID < TableCount(2, vID) THEN Block(2, vID) ELSE Block(4, vID)

\* C29: for every vertex vID, insertVertex called with nDofs equal to the
\* vertex-function count of vID and bfID in [0, vertex-function count +
\* boundary-vertex count of vID) writes a row of vID's own vertex block if
\* bfID < nDofs and of vID's own boundary-vertex block otherwise; for an
\* interior vertex every ordinal lands in its own vertex block
C29_VertexRowInOwnBlock ==
    built =>
        /\ \A vID \in DOMAIN mp.vertices : \A bfID \in VertexOrdinals(vID) :
              /\ VertexRow(vID, TableCount(2, vID), bfID) \in VertexTarget(vID, bfID)
              /\ kindOfVertex[vID] = 0 =>
                    VertexRow(vID, TableCount(2, vID), bfID) \in Block(2, vID)
        /\ \A c \in calls : (c.kind = "vertex" /\ OnlyCall(c)) =>
              \A cell \in DOMAIN D_sparse :
                  /\ cell[1] \in VertexTarget(c.id, c.bfID)
                  /\ kindOfVertex[c.id] = 0 => cell[1] \in Block(2, c.id)

\* the last function of an interior vertex has been inserted
C29_Witness ==
    /\ built
    /\ \E c \in calls :
          /\ c.kind = "vertex" /\ OnlyCall(c)
          /\ kindOfVertex[c.id] = 0
          /\ c.bfID = TableCount(2, c.id) - 1
          /\ \E cell \in DOMAIN D_sparse :
                cell[1] = numBasisFunctions[2][c.id + 1] - 1


----------------------------------------------------------------------------
(* Properties of stepsize *)

InLoop == ls.pc \in { "shrink", "grow" } /\ ls.iter >= 1

\* the loop stepsize went through, if any
LeftShrink == ls.pc = "returned" /\ ls.iter >= 1 /\ ~ls.c1

LeftGrow == ls.pc = "returned" /\ ls.iter >= 1 /\ ls.c1

\* C30: the step-shrinking loop stops at the first tau for which the freshly
\* computed sufficient-decrease condition c1 holds, the step-growing loop at
\* the first tau for which the fresh c1 fails or the fresh curvature
\* condition c2 holds, and either loop runs at most 10 passes before stepsize
\* returns
C30_LoopsStopOnFreshConditions ==
    /\ ls.pc # "idle" => ls.iter <= maxiter
    /\ (ls.pc = "shrink" /\ ls.iter >= 1) => ~ls.c1_loop
    /\ (ls.pc = "grow" /\ ls.iter >= 1) => (ls.c1_loop /\ ~ls.c2_loop)
    /\ (LeftShrink /\ ls.iter < maxiter) => ls.c1_loop
    /\ (LeftGrow /\ ls.iter < maxiter) => (~ls.c1_loop \/ ls.c2_loop)

============================================================================
